---- MODULE Spec2Model ----
(***************************************************************************)
(* A model of nomad-driver-nix: the OOM correlation listener               *)
(* (nix/oom_listener.go) and the task lifecycle of the driver              *)
(* (nix/driver.go).                                                        *)
(*                                                                         *)
(* Channels made by Register are numbered 1, 2, ... in creation order;     *)
(* chanId[c] is the machine the registration {id, c} was made for.         *)
(* 0 stands for "no channel" (a nil chan, a missing map entry).            *)
(***************************************************************************)
EXTENDS Integers, Sequences, FiniteSets, TLC

\* ------------------------------------------------------------------ bounds
NumMachines == 2
MaxChans == 2
MaxOoms == 2
MaxDeregs == 1
MaxStarts == 2
MaxWaits == 1

\* Capacity of the listener's three buffered channels.
ChanCap == 10

Machines == 1..NumMachines
Chans == 1..MaxChans
NoChan == 0

\* Task ids. Every task has a machine of its own: task t runs machine t.
TaskIDs == Machines
MachineOf(t) == t
NoTask == 0
Starts == 1..MaxStarts
Waits == 1..MaxWaits
MaxFingerprints == 1
Fingerprints == 1..MaxFingerprints

VARIABLES
    register,    \* OOMListener.register: queue of registrations [id, c]
    deregister,  \* OOMListener.deregister: queue of machine ids
    oom,         \* OOMListener.oom: queue of parsed OOM events
    ids,         \* loop's map: machine -> channel of its registration
    loopPc,      \* "select": at the select; "send": blocked in reg.c <- oom
    loopOom,     \* the event the loop is sending (NoOom when none)
    chanId,      \* channels made so far: chanId[c] = machine of channel c
    delivered,   \* per channel: number of events received from it
    granted,     \* per machine: channel of the last Register call that has
                 \* returned and was neither followed by a Deregister call
                 \* nor by an OOM event for the machine (in call order)
    revoked,     \* channels whose registration was withdrawn by a
                 \* Deregister call made before any event for the machine
    nOoms,       \* OOM events produced so far
    nDeregs,     \* Deregister calls made by the listener's bare clients
    tasks,       \* Driver.tasks: task id -> its handle's session (0: none)
    oomChan,     \* Driver.oomChan
    sess,        \* executor sessions launched so far, with their handles
    calls,       \* the StartTask calls: where each is
    started,     \* what the last StartTask call to return has returned
    waits,       \* the handleWait goroutines
    err,         \* error returned by the last operation that returned one
    recovered,   \* what the last RecoverTask call has returned
    net,         \* per task: NetworkIsolation and networkInterfaces of its
                 \* handle (NoNet: no handle)
    fw,          \* the calls of ConfigureIPTablesRules made so far
    given,       \* the input a function of the program is applied to
    computed,    \* [done, value]: what the function has returned
    ctxDone,     \* Driver.ctx is cancelled (signalShutdown was called)
    fps,         \* the handleFingerprint goroutines
    waitCtx,     \* per handleWait goroutine: its caller's ctx is cancelled
    tail         \* OOMListener.Start: "idle" (between two sessions),
                 \* "tailing" (in a session) or "panicked"

listenerVars == <<register, deregister, oom, ids, loopPc, loopOom, chanId,
                  delivered, granted, revoked, nOoms, nDeregs>>
driverVars == <<tasks, oomChan, sess, calls, started, waits, err>>
netVars == <<net, fw>>
runVars == <<ctxDone, fps, waitCtx, tail>>
vars == <<listenerVars, driverVars, recovered, netVars, given, computed,
          runVars>>

\* ------------------------------------------------------------- the listener

\* An OOM event; due is the channel the event is owed to in call order.
OOM(m, due) == [MachineID |-> m, due |-> due]
NoOom == [MachineID |-> 0, due |-> NoChan]

InitListener ==
    /\ register = <<>>
    /\ deregister = <<>>
    /\ oom = <<>>
    /\ ids = [m \in Machines |-> NoChan]
    /\ loopPc = "select"
    /\ loopOom = NoOom
    /\ chanId = <<>>
    /\ delivered = [c \in Chans |-> 0]
    /\ granted = [m \in Machines |-> NoChan]
    /\ revoked = {}
    /\ nOoms = 0
    /\ nDeregs = 0

\* delete(ids, id)
DeleteAll(map, id) == [m \in DOMAIN map |-> NoChan]
Delete(map, id) == [map EXCEPT ![id] = NoChan]

\* What the loop's oom case leaves of the map once the event is dealt with.
AfterOOMBuggy(map, id) == map
AfterOOM(map, id) == Delete(map, id)

\* Whether some event for machine m is queued or held by the loop.
EventPending(m) ==
    \/ \E i \in 1..Len(oom) : oom[i].MachineID = m
    \/ loopOom.MachineID = m

\* Register(machineID): make a channel, queue the registration, return it.
\* The part of the state the listener owns; callers add their own.
Register(m) ==
    /\ Len(chanId) < MaxChans
    /\ Len(register) < ChanCap
    /\ chanId' = Append(chanId, m)
    /\ register' = Append(register, [id |-> m, c |-> Len(chanId) + 1])

\* Deregister(machineID): queue the machine id.
Deregister(m) ==
    /\ Len(deregister) < ChanCap
    /\ deregister' = Append(deregister, m)

\* parseLine on an oom-kill line of machine m: queue the event.
ParseLine(m) ==
    /\ nOoms < MaxOoms
    /\ Len(oom) < ChanCap
    /\ oom' = Append(oom, OOM(m, granted[m]))
    /\ nOoms' = nOoms + 1
    /\ granted' = [granted EXCEPT ![m] = NoChan]
    /\ UNCHANGED <<register, deregister, ids, loopPc, loopOom, chanId,
                   delivered, revoked, nDeregs>>
    /\ UNCHANGED driverVars
    /\ UNCHANGED recovered
    /\ UNCHANGED netVars
    /\ UNCHANGED <<given, computed>>
    /\ UNCHANGED runVars

\* loop, case reg := <-self.register
LoopRegister ==
    /\ loopPc = "select"
    /\ register # <<>>
    /\ ids' = [ids EXCEPT ![Head(register).id] = Head(register).c]
    /\ register' = Tail(register)
    /\ UNCHANGED <<deregister, oom, loopPc, loopOom, chanId, delivered,
                   granted, revoked, nOoms, nDeregs>>
    /\ UNCHANGED driverVars
    /\ UNCHANGED recovered
    /\ UNCHANGED netVars
    /\ UNCHANGED <<given, computed>>
    /\ UNCHANGED runVars

\* loop, case id := <-self.deregister
LoopDeregister ==
    /\ loopPc = "select"
    /\ deregister # <<>>
    /\ ids' = Delete(ids, Head(deregister))
    /\ deregister' = Tail(deregister)
    /\ UNCHANGED <<register, oom, loopPc, loopOom, chanId, delivered,
                   granted, revoked, nOoms, nDeregs>>
    /\ UNCHANGED driverVars
    /\ UNCHANGED recovered
    /\ UNCHANGED netVars
    /\ UNCHANGED <<given, computed>>
    /\ UNCHANGED runVars

\* loop, case oom := <-self.oom: with a registration the loop blocks in the
\* send on the unbuffered reg.c; without one it deletes and selects again.
LoopOOM ==
    /\ loopPc = "select"
    /\ oom # <<>>
    /\ oom' = Tail(oom)
    /\ IF ids[Head(oom).MachineID] # NoChan
       THEN /\ loopPc' = "send"
            /\ loopOom' = Head(oom)
            /\ ids' = ids
       ELSE /\ ids' = AfterOOM(ids, Head(oom).MachineID)
            /\ UNCHANGED <<loopPc, loopOom>>
    /\ UNCHANGED <<register, deregister, chanId, delivered, granted,
                   revoked, nOoms, nDeregs>>
    /\ UNCHANGED driverVars
    /\ UNCHANGED recovered
    /\ UNCHANGED netVars
    /\ UNCHANGED <<given, computed>>
    /\ UNCHANGED runVars

\* The loop's blocked send meets a receiver on channel c: the event is
\* handed over and the loop deletes the registration.
LoopSend(c) ==
    /\ loopPc = "send"
    /\ ids[loopOom.MachineID] = c
    /\ delivered' = [delivered EXCEPT ![c] = @ + 1]
    /\ ids' = AfterOOM(ids, loopOom.MachineID)
    /\ loopPc' = "select"
    /\ loopOom' = NoOom

\* --------------------------------------------------------------- the driver

\* The process states the executor reports for an exited child.
ExitStates == {[ExitCode |-> 0, Signal |-> 0], [ExitCode |-> 137, Signal |-> 9]}
NoExit == [ExitCode |-> 0, Signal |-> 0]

\* Paths are sequences of components, "/" first when absolute; the empty
\* sequence is the empty string.
IsAbs(path) == Len(path) > 0 /\ path[1] = "/"
Root == <<"/">>

\* The fields of MachineConfig that Validate and the image builds read;
\* "bogus" stands for any string outside the allowed set. PivotRoot is the
\* list of its ":"-separated paths, ImageDownload the empty sequence (nil)
\* or one ImageDownloadOpts.
Configs ==
    [LinkJournal : {"", "bogus"},
     Volatile : {"", "yes", "state", "overlay", "no", "bogus"},
     Console : {"", "bogus"},
     ResolvConf : {"", "bogus"},
     Boot : BOOLEAN, ProcessTwo : BOOLEAN, UserNamespacing : BOOLEAN,
     ReadOnly : BOOLEAN, Ephemeral : BOOLEAN,
     WorkingDirectory : {<<>>, <<"/", "dir">>, <<"dir">>},
     PivotRoot : {<<>>, <<<<"/", "dir">>>>, <<<<"/", "dir">>, <<"dir">>>>},
     Image : {<<>>, Root, <<"/", "dir">>},
     ImageDownload : {<<>>} \cup {<<d>> : d \in [Type : {"tar", "bogus"},
                                                Verify : {"no", "bogus"}]},
     NixOS : {"", "flake"}, NixPackages : {<<>>, <<"pkg">>}]

\* The configurations StartTask is given in the model of the task
\* lifecycle: those of Configs with an image directory and the fields whose
\* rules have one outcome left at their defaults.
StartConfigs ==
    [LinkJournal : {""}, Volatile : {"", "yes", "bogus"}, Console : {""},
     ResolvConf : {""},
     Boot : BOOLEAN, ProcessTwo : BOOLEAN, UserNamespacing : BOOLEAN,
     ReadOnly : BOOLEAN, Ephemeral : {FALSE},
     WorkingDirectory : {<<>>}, PivotRoot : {<<>>},
     Image : {<<"/", "dir">>}, ImageDownload : {<<>>},
     NixOS : {"", "flake"}, NixPackages : {<<>>, <<"pkg">>}]

isNixOS(c) == c.NixOS # ""
isNixPackagesNever(c) == FALSE
isNixPackages(c) == Len(c.NixPackages) > 0

\* Validate: the rule on the image "/".
RootImageRule(c) ==
    c.Image = Root /\ ~(c.Ephemeral \/ c.Volatile = "yes" \/ c.Volatile = "state")

\* MachineConfig.Validate, the rules in the order of the code: the error of
\* the first failing rule, "nil" when none fails.
Validate(c) ==
    IF c.LinkJournal \notin {"", "no", "host", "try-host", "guest",
                             "try-guest", "auto"}
    THEN "invalid parameter for link_journal"
    ELSE IF c.Volatile \notin {"", "yes", "state", "overlay", "no"}
    THEN "invalid parameter for volatile"
    ELSE IF c.Console \notin {"", "interactive", "read-only", "passive", "pipe"}
    THEN "invalid parameter for console"
    ELSE IF c.ResolvConf \notin
            {"", "off", "copy-host", "copy-static", "copy-uplink",
             "copy-stub", "replace-host", "replace-static", "replace-uplink",
             "replace-stub", "bind-host", "bind-static", "bind-uplink",
             "bind-stub", "delete", "auto"}
    THEN "invalid parameter for resolv_conf"
    ELSE IF c.Boot /\ c.ProcessTwo
    THEN "boot and process_two may not be combined"
    ELSE IF c.Volatile # "" /\ c.UserNamespacing
    THEN "volatile and user_namespacing may not be combined"
    ELSE IF c.ReadOnly /\ c.UserNamespacing
    THEN "read_only and user_namespacing may not be combined"
    ELSE IF c.WorkingDirectory # <<>> /\ ~IsAbs(c.WorkingDirectory)
    THEN "working_directory is not an absolute path"
    ELSE IF \E i \in 1..Len(c.PivotRoot) : ~IsAbs(c.PivotRoot[i])
    THEN "pivot_root is not an absolute path"
    ELSE IF RootImageRule(c)
    THEN "starting a container from the root directory is not supported. Use ephemeral or volatile"
    ELSE IF c.ImageDownload # <<>> /\ c.ImageDownload[1].Type \notin {"raw", "tar"}
    THEN "invalid parameter for image_download.type"
    ELSE IF /\ c.ImageDownload # <<>>
            /\ c.ImageDownload[1].Verify \notin {"no", "checksum", "signature"}
    THEN "invalid parameter for image_download.verify"
    ELSE IF isNixOS(c) /\ isNixPackages(c)
    THEN "nixos and packages may not be combined"
    ELSE "nil"

\* ---- ports
\* Go maps are functions on their key set.
EmptyMap == [k \in {} |-> 0]
Put(map, key, value) ==
    [k \in DOMAIN map \cup {key} |-> IF k = key THEN value ELSE map[k]]

\* What StartTask resolves the ports from: driverConfig.PortMap and
\* driverConfig.Ports, the allocated ports cfg.Resources.Ports (isNil: no
\* network stanza with ports) and cfg.Resources.NomadResources.Networks.
AllocatedLists ==
    {<<>>,
     <<[Label |-> "http", Value |-> 8080, To |-> 0]>>,
     <<[Label |-> "http", Value |-> 8080, To |-> 80],
       [Label |-> "db", Value |-> 5432, To |-> 0]>>}

PortInputs ==
    [PortMap : {EmptyMap, [k \in {"http"} |-> 80]},
     Ports : {<<>>, <<"http">>, <<"db", "http">>},
     Allocated : [isNil : {TRUE}, list : {<<>>}]
                 \cup [isNil : {FALSE}, list : AllocatedLists],
     Networks : {<<>>,
                 <<[ReservedPorts |-> <<[Label |-> "http", Value |-> 8080]>>,
                    DynamicPorts |-> <<[Label |-> "db", Value |-> 5432]>>]>>}]

\* AllocatedPorts.Get(label): the first port with the label, <<>> if none.
RECURSIVE Get(_, _)
Get(list, label) ==
    IF list = <<>> THEN <<>>
    ELSE IF Head(list).Label = label THEN <<Head(list)>>
    ELSE Get(Tail(list), label)

\* The internal port of an allocated port: its target, the host port when
\* no target is given.
TargetAlways(p) == p.To
Target(p) == IF p.To = 0 THEN p.Value ELSE p.To

\* The loop over driverConfig.Ports: the error of the first label that is
\* not allocated, or the "external:internal" pairs by label.
RECURSIVE ExposePorts(_, _, _)
ExposePorts(ports, allocated, port) ==
    IF ports = <<>> THEN [err |-> "nil", Port |-> port]
    ELSE LET p == Get(allocated, Head(ports)) IN
         IF p = <<>>
         THEN [err |-> "Port not found, check network stanza", Port |-> port]
         ELSE ExposePorts(Tail(ports), allocated,
                          Put(port, Head(ports), <<p[1].Value, Target(p[1])>>))

\* The loops over the reserved and the dynamic ports of the first network
\* (the deprecated port_map).
RECURSIVE MapPorts(_, _, _)
MapPorts(list, portMap, port) ==
    IF list = <<>> THEN port
    ELSE MapPorts(Tail(list), portMap,
                  Put(port, Head(list).Label,
                      <<Head(list).Value,
                        IF Head(list).Label \in DOMAIN portMap
                        THEN portMap[Head(list).Label]
                        ELSE Head(list).Value>>))

\* StartTask, "Setup port mapping and exposed ports": the error returned
\* ("nil": none) and driverConfig.Port.
ResolvePortsUnchecked(pi) ==
    IF Len(pi.Ports) > 0 /\ ~pi.Allocated.isNil
    THEN ExposePorts(pi.Ports, pi.Allocated.list, EmptyMap)
    ELSE [err |-> "nil", Port |-> EmptyMap]
ResolvePorts(pi) ==
    IF DOMAIN pi.PortMap # {} /\ Len(pi.Ports) > 0
    THEN [err |-> "Invalid port declaration; use of port_map and ports",
          Port |-> EmptyMap]
    ELSE IF DOMAIN pi.PortMap # {} /\ Len(pi.Networks) = 0
    THEN [err |-> "Trying to map ports but no network interface is available",
          Port |-> EmptyMap]
    ELSE IF Len(pi.Ports) > 0 /\ pi.Allocated.isNil
    THEN [err |-> "No ports defined in network stanza", Port |-> EmptyMap]
    ELSE IF Len(pi.Ports) > 0
    THEN ExposePorts(pi.Ports, pi.Allocated.list, EmptyMap)
    ELSE IF DOMAIN pi.PortMap # {}
    THEN [err |-> "nil",
          Port |-> MapPorts(pi.Networks[1].DynamicPorts, pi.PortMap,
                            MapPorts(pi.Networks[1].ReservedPorts,
                                     pi.PortMap, EmptyMap))]
    ELSE [err |-> "nil", Port |-> EmptyMap]

\* StartTask from the image builds to the launch, in the order of the code:
\* which step fails first ("nil": none, the child is launched) and whether
\* a build step of the image resolution was invoked on the way.
Prepare(c, pi, nixosOk, packagesOk, launchOk) ==
    IF isNixOS(c) /\ ~nixosOk
    THEN [err |-> "build", built |-> TRUE]
    ELSE IF isNixPackages(c) /\ ~packagesOk
    THEN [err |-> "build", built |-> TRUE]
    ELSE IF ResolvePorts(pi).err # "nil"
    THEN [err |-> "ports", built |-> isNixOS(c) \/ isNixPackages(c)]
    ELSE IF Validate(c) # "nil"
    THEN [err |-> "validate", built |-> isNixOS(c) \/ isNixPackages(c)]
    ELSE IF ~launchOk
    THEN [err |-> "launch", built |-> isNixOS(c) \/ isNixPackages(c)]
    ELSE [err |-> "nil", built |-> isNixOS(c) \/ isNixPackages(c)]

\* The inputs of that part of StartTask: the configuration, the ports, and
\* whether the two builds and the launch succeed.
PrepareInputs == StartConfigs \X PortInputs \X BOOLEAN \X BOOLEAN \X BOOLEAN

\* Every outcome of that part of StartTask, over all its inputs.
PrepareOutcomes ==
    {Prepare(i[1], i[2], i[3], i[4], i[5]) : i \in PrepareInputs}

\* The errors StartTask returns for a failure after the child was launched.
AfterLaunch == {"describe", "address", "persist"}

\* What StartTask leaves of the session (st) when step `fail` fails after
\* the launch: the introspection and the address failure shut the executor
\* down and kill it unless it has exited; the failure to persist the driver
\* state returns at once.
Cleanup(st, fail) ==
    IF fail \in {"describe", "address"} THEN "killed" ELSE st

\* A session: st is "running" (child alive), "exited" (child exited, ps
\* its state) or "killed" (the executor plugin is gone: pluginClient.Exited);
\* procState is the handle's, "none" until the handle is in the registry.
Session(t) ==
    [task |-> t, st |-> "running", ps |-> NoExit, procState |-> "none"]

NoCall == [pc |-> "idle", task |-> NoTask, session |-> 0, built |-> FALSE]
Done == [NoCall EXCEPT !.pc = "done"]

\* What a StartTask call returns: its error ("nil": none), with the session
\* it launched (0: none) and whether it invoked a build step.
Return(call, e) ==
    [task |-> call.task, err |-> e, session |-> call.session,
     built |-> call.built]
NoResult == [ExitCode |-> 0, Signal |-> 0, OOMKilled |-> FALSE, Err |-> "nil"]
NoWait == [pc |-> "idle", session |-> 0, c |-> NoChan, got |-> 0,
           result |-> NoResult]

InitDriver ==
    /\ tasks = [t \in TaskIDs |-> NoTask]
    /\ oomChan = NoChan
    /\ sess = <<>>
    /\ calls = [k \in Starts |-> NoCall]
    /\ started = Return(NoCall, "nil")
    /\ waits = [w \in Waits |-> NoWait]
    /\ err = "nil"

\* What a RecoverTask call returns: its error ("nil": none), with the
\* session it reattached to (0: none).
Recovery(t, e, s) == [task |-> t, err |-> e, session |-> s]

InitProgram ==
    /\ InitListener
    /\ InitDriver
    /\ recovered = Recovery(NoTask, "nil", 0)
    /\ net = [t \in TaskIDs |-> [tracked |-> FALSE, isolated |-> FALSE,
                                 netIF |-> <<>>]]
    /\ fw = {}
    /\ ctxDone = FALSE
    /\ fps = [f \in Fingerprints |-> [pc |-> "idle", ctx |-> FALSE]]
    /\ waitCtx = [w \in Waits |-> FALSE]
    /\ tail = [pc |-> "idle"]

Init ==
    /\ InitProgram
    /\ given = <<>>
    /\ computed = [done |-> FALSE]

\* taskHandle.IsRunning
IsRunning(s) == sess[s].procState = "running"

\* StartTask, entry: a tracked id is refused before anything else is done;
\* otherwise the call goes on to register the machine.
StartTaskNoCheck(k, t) ==
    /\ calls[k].pc = "idle"
    /\ \A j \in Starts : j < k => calls[j].pc # "idle"
    /\ calls' = [calls EXCEPT ![k] = [NoCall EXCEPT !.pc = "register", !.task = t]]
    /\ UNCHANGED <<tasks, oomChan, sess, started, waits, err>>
    /\ UNCHANGED listenerVars
    /\ UNCHANGED recovered
    /\ UNCHANGED netVars
    /\ UNCHANGED <<given, computed>>
    /\ UNCHANGED runVars
StartTask(k, t) ==
    /\ calls[k].pc = "idle"
    /\ \A j \in Starts : j < k => calls[j].pc # "idle"
    /\ IF tasks[t] # NoTask
       THEN /\ calls' = [calls EXCEPT ![k] = Done]
            /\ started' = Return([NoCall EXCEPT !.task = t], "exists")
       ELSE /\ calls' = [calls EXCEPT ![k] =
                           [NoCall EXCEPT !.pc = "register", !.task = t]]
            /\ started' = started
    /\ UNCHANGED <<tasks, oomChan, sess, waits, err>>
    /\ UNCHANGED listenerVars
    /\ UNCHANGED recovered
    /\ UNCHANGED netVars
    /\ UNCHANGED <<given, computed>>
    /\ UNCHANGED runVars

\* StartTask: d.oomChan = d.oomListener.Register(driverConfig.Machine)
StartTaskRegister(k) ==
    /\ calls[k].pc = "register"
    /\ Register(MachineOf(calls[k].task))
    /\ oomChan' = Len(chanId) + 1
    /\ calls' = [calls EXCEPT ![k].pc = "prepare"]
    /\ UNCHANGED <<tasks, sess, started, waits, err>>
    /\ UNCHANGED <<deregister, oom, ids, loopPc, loopOom, delivered,
                   granted, revoked, nOoms, nDeregs>>
    /\ UNCHANGED recovered
    /\ UNCHANGED netVars
    /\ UNCHANGED <<given, computed>>
    /\ UNCHANGED runVars

\* StartTask from the image builds to exec.Launch.
StartTaskPrepare(k) ==
    /\ calls[k].pc = "prepare"
    /\ \E r \in PrepareOutcomes :
         IF r.err # "nil"
         THEN /\ calls' = [calls EXCEPT ![k] = Done]
              /\ started' = Return([calls[k] EXCEPT !.built = r.built], r.err)
              /\ sess' = sess
         ELSE /\ calls' = [calls EXCEPT ![k].pc = "describe",
                                        ![k].built = r.built,
                                        ![k].session = Len(sess) + 1]
              /\ started' = started
              /\ sess' = Append(sess, Session(calls[k].task))
    /\ UNCHANGED <<tasks, oomChan, waits, err>>
    /\ UNCHANGED listenerVars
    /\ UNCHANGED recovered
    /\ UNCHANGED netVars
    /\ UNCHANGED <<given, computed>>
    /\ UNCHANGED runVars

\* StartTask from DescribeMachine to SetDriverState.
StartTaskDescribe(k) ==
    /\ calls[k].pc = "describe"
    /\ \E fail \in AfterLaunch \cup {"nil"} :
         IF fail # "nil"
         THEN /\ calls' = [calls EXCEPT ![k] = Done]
              /\ started' = Return(calls[k], fail)
              /\ sess' = [sess EXCEPT ![calls[k].session].st = Cleanup(@, fail)]
         ELSE /\ calls' = [calls EXCEPT ![k].pc = "set"]
              /\ started' = started
              /\ sess' = sess
    /\ UNCHANGED <<tasks, oomChan, waits, err>>
    /\ UNCHANGED listenerVars
    /\ UNCHANGED recovered
    /\ UNCHANGED netVars
    /\ UNCHANGED <<given, computed>>
    /\ UNCHANGED runVars

\* StartTask: d.tasks.Set(cfg.ID, h); go h.run(); return
StartTaskSet(k) ==
    /\ calls[k].pc = "set"
    /\ tasks' = [tasks EXCEPT ![calls[k].task] = calls[k].session]
    /\ sess' = [sess EXCEPT ![calls[k].session].procState = "running"]
    /\ calls' = [calls EXCEPT ![k] = Done]
    /\ started' = Return(calls[k], "nil")
    /\ UNCHANGED <<oomChan, waits, err>>
    /\ UNCHANGED listenerVars
    /\ UNCHANGED recovered
    /\ UNCHANGED netVars
    /\ UNCHANGED <<given, computed>>
    /\ UNCHANGED runVars

\* The child of a session exits.
ChildExit(s) ==
    /\ s \in 1..Len(sess)
    /\ sess[s].st = "running"
    /\ \E ps \in ExitStates : sess' = [sess EXCEPT ![s].st = "exited", ![s].ps = ps]
    /\ UNCHANGED <<tasks, oomChan, calls, started, waits, err>>
    /\ UNCHANGED listenerVars
    /\ UNCHANGED recovered
    /\ UNCHANGED netVars
    /\ UNCHANGED <<given, computed>>
    /\ UNCHANGED runVars

\* taskHandle.run: the handle learns that its process is over.
HandleRun(s) ==
    /\ s \in 1..Len(sess)
    /\ sess[s].procState = "running"
    /\ sess[s].st # "running"
    /\ sess' = [sess EXCEPT ![s].procState = "exited"]
    /\ UNCHANGED <<tasks, oomChan, calls, started, waits, err>>
    /\ UNCHANGED listenerVars
    /\ UNCHANGED recovered
    /\ UNCHANGED netVars
    /\ UNCHANGED <<given, computed>>
    /\ UNCHANGED runVars

\* The kernel logs an oom-kill in the cgroup of machine m, which a launched
\* container made; the log tailer parses the line.
KernelOOM(m) ==
    /\ \E s \in 1..Len(sess) : MachineOf(sess[s].task) = m
    /\ ParseLine(m)

\* WaitTask: an unknown id is refused; otherwise handleWait is started.
WaitTask(w, t) ==
    /\ waits[w].pc = "idle"
    /\ IF tasks[t] = NoTask
       THEN /\ err' = "ErrTaskNotFound"
            /\ waits' = waits
       ELSE /\ err' = "nil"
            /\ waits' = [waits EXCEPT ![w] = [NoWait EXCEPT !.pc = "wait",
                                                          !.session = tasks[t]]]
    /\ UNCHANGED <<tasks, oomChan, sess, calls, started>>
    /\ UNCHANGED listenerVars
    /\ UNCHANGED recovered
    /\ UNCHANGED netVars
    /\ UNCHANGED <<given, computed>>
    /\ UNCHANGED runVars

\* handleWait: the result made of what handle.exec.Wait returned.
ExitResult(s) ==
    IF sess[s].st = "killed"
    THEN [NoResult EXCEPT !.Err = "executor: error waiting on process"]
    ELSE [NoResult EXCEPT !.ExitCode = sess[s].ps.ExitCode,
                          !.Signal = sess[s].ps.Signal]

\* handleWait: what the receive from d.oomChan makes of the result.
OOMResult(result) ==
    [result EXCEPT !.OOMKilled = TRUE, !.Err = "Out of memory"]

\* handleWait: handle.exec.Wait returns; the select is entered, which reads
\* d.oomChan once.
WaitExec(w) ==
    /\ waits[w].pc = "wait"
    /\ sess[waits[w].session].st # "running"
    /\ waits' = [waits EXCEPT ![w].pc = "select",
                              ![w].c = oomChan,
                              ![w].result = ExitResult(waits[w].session)]
    /\ UNCHANGED <<tasks, oomChan, sess, calls, started, err>>
    /\ UNCHANGED listenerVars
    /\ UNCHANGED recovered
    /\ UNCHANGED netVars
    /\ UNCHANGED <<given, computed>>
    /\ UNCHANGED runVars

\* handleWait: case <-time.After(5 * time.Second)
WaitTimeout(w) ==
    /\ waits[w].pc = "select"
    /\ waits' = [waits EXCEPT ![w].pc = "dereg"]
    /\ UNCHANGED <<tasks, oomChan, sess, calls, started, err>>
    /\ UNCHANGED listenerVars
    /\ UNCHANGED recovered
    /\ UNCHANGED netVars
    /\ UNCHANGED <<given, computed>>
    /\ UNCHANGED runVars

\* handleWait: case <-d.oomChan, the other end of the loop's send.
WaitOOM(w) ==
    /\ waits[w].pc = "select"
    /\ waits[w].c # NoChan
    /\ LoopSend(waits[w].c)
    /\ waits' = [waits EXCEPT ![w].pc = "dereg",
                              ![w].got = loopOom.MachineID,
                              ![w].result = OOMResult(@)]
    /\ UNCHANGED <<tasks, oomChan, sess, calls, started, err>>
    /\ UNCHANGED <<register, deregister, oom, chanId, granted, revoked,
                   nOoms, nDeregs>>
    /\ UNCHANGED recovered
    /\ UNCHANGED netVars
    /\ UNCHANGED <<given, computed>>
    /\ UNCHANGED runVars

\* handleWait: d.oomListener.Deregister(handle.machine.Name); from then on
\* the result is offered on the channel WaitTask returned.
WaitDeregister(w) ==
    /\ waits[w].pc = "dereg"
    /\ Deregister(MachineOf(sess[waits[w].session].task))
    /\ waits' = [waits EXCEPT ![w].pc = "serve"]
    /\ UNCHANGED <<tasks, oomChan, sess, calls, started, err>>
    /\ UNCHANGED <<register, oom, ids, loopPc, loopOom, chanId, delivered,
                   granted, revoked, nOoms, nDeregs>>
    /\ UNCHANGED recovered
    /\ UNCHANGED netVars
    /\ UNCHANGED <<given, computed>>
    /\ UNCHANGED runVars

\* StopTask: what it returns after exec.Shutdown: the failure of the call
\* is no error once the executor has exited (pluginClient.Exited).
StopErrorStrict(failed, exited) == IF failed THEN "error" ELSE "nil"
StopError(failed, exited) ==
    IF failed THEN (IF exited THEN "nil" ELSE "error") ELSE "nil"

\* Whether exec.Shutdown fails on session s: the call itself fails, or the
\* executor it is sent to is gone.
ShutdownFails(s, shutdownOk) == ~shutdownOk \/ sess[s].st = "killed"

\* StopTask with the outcome of exec.Shutdown given: a successful call
\* ends a running child (ps: how).
StopTaskCall(t, shutdownOk, ps) ==
    /\ IF tasks[t] = NoTask
       THEN /\ err' = "ErrTaskNotFound"
            /\ sess' = sess
       ELSE LET s == tasks[t] IN
            /\ err' = StopError(ShutdownFails(s, shutdownOk),
                                sess[s].st = "killed")
            /\ sess' = IF ~ShutdownFails(s, shutdownOk) /\ sess[s].st = "running"
                       THEN [sess EXCEPT ![s].st = "exited", ![s].ps = ps]
                       ELSE sess
    /\ UNCHANGED <<tasks, oomChan, calls, started, waits>>
    /\ UNCHANGED listenerVars
    /\ UNCHANGED recovered
    /\ UNCHANGED netVars
    /\ UNCHANGED <<given, computed>>
    /\ UNCHANGED runVars

\* StopTask
StopTask(t) ==
    \E shutdownOk \in BOOLEAN, ps \in ExitStates :
        StopTaskCall(t, shutdownOk, ps)

\* DestroyTask
DestroyTaskForced(t, force) ==
    /\ IF tasks[t] = NoTask
       THEN /\ err' = "ErrTaskNotFound"
            /\ UNCHANGED <<tasks, sess>>
       ELSE /\ err' = "nil"
            /\ sess' = [sess EXCEPT ![tasks[t]].st = "killed"]
            /\ tasks' = [tasks EXCEPT ![t] = NoTask]
    /\ UNCHANGED <<oomChan, calls, started, waits>>
    /\ UNCHANGED listenerVars
    /\ UNCHANGED recovered
    /\ UNCHANGED netVars
    /\ UNCHANGED <<given, computed>>
    /\ UNCHANGED runVars
DestroyTask(t, force) ==
    /\ IF tasks[t] = NoTask
       THEN /\ err' = "ErrTaskNotFound"
            /\ UNCHANGED <<tasks, sess>>
       ELSE IF IsRunning(tasks[t]) /\ ~force
       THEN /\ err' = "error"
            /\ UNCHANGED <<tasks, sess>>
       ELSE /\ err' = "nil"
            /\ sess' = [sess EXCEPT ![tasks[t]].st = "killed"]
            /\ tasks' = [tasks EXCEPT ![t] = NoTask]
    /\ UNCHANGED <<oomChan, calls, started, waits>>
    /\ UNCHANGED listenerVars
    /\ UNCHANGED recovered
    /\ UNCHANGED netVars
    /\ UNCHANGED <<given, computed>>
    /\ UNCHANGED runVars

\* The error of an operation that looks the task up and then returns what
\* the executor (or the operating system) returns.
Lookup(t, ok) ==
    IF tasks[t] = NoTask THEN "ErrTaskNotFound"
    ELSE IF ok THEN "nil" ELSE "error"

\* InspectTask
InspectTask(t) ==
    /\ err' = Lookup(t, TRUE)
    /\ UNCHANGED <<tasks, oomChan, sess, calls, started, waits>>
    /\ UNCHANGED listenerVars
    /\ UNCHANGED recovered
    /\ UNCHANGED netVars
    /\ UNCHANGED <<given, computed>>
    /\ UNCHANGED runVars

\* TaskStats: handle.exec.Stats
TaskStats(t) ==
    /\ \E ok \in BOOLEAN : err' = Lookup(t, ok)
    /\ UNCHANGED <<tasks, oomChan, sess, calls, started, waits>>
    /\ UNCHANGED listenerVars
    /\ UNCHANGED recovered
    /\ UNCHANGED netVars
    /\ UNCHANGED <<given, computed>>
    /\ UNCHANGED runVars

\* SignalTask: handle.exec.Signal
SignalTask(t) ==
    /\ \E ok \in BOOLEAN : err' = Lookup(t, ok)
    /\ UNCHANGED <<tasks, oomChan, sess, calls, started, waits>>
    /\ UNCHANGED listenerVars
    /\ UNCHANGED recovered
    /\ UNCHANGED netVars
    /\ UNCHANGED <<given, computed>>
    /\ UNCHANGED runVars

\* ExecTask and ExecTaskStreamingRaw: an empty command is refused before
\* the task is looked up.
ExecErrorLookupFirst(t, cmdLen, ok) ==
    IF tasks[t] = NoTask THEN "ErrTaskNotFound"
    ELSE IF cmdLen = 0 THEN "error"
    ELSE IF ok THEN "nil" ELSE "error"
ExecError(t, cmdLen, ok) ==
    IF cmdLen = 0 THEN "error" ELSE Lookup(t, ok)

ExecTask(t, cmdLen) ==
    /\ \E ok \in BOOLEAN : err' = ExecError(t, cmdLen, ok)
    /\ UNCHANGED <<tasks, oomChan, sess, calls, started, waits>>
    /\ UNCHANGED listenerVars
    /\ UNCHANGED recovered
    /\ UNCHANGED netVars
    /\ UNCHANGED <<given, computed>>
    /\ UNCHANGED runVars

ExecTaskStreamingRaw(t, cmdLen) ==
    /\ \E ok \in BOOLEAN : err' = ExecError(t, cmdLen, ok)
    /\ UNCHANGED <<tasks, oomChan, sess, calls, started, waits>>
    /\ UNCHANGED listenerVars
    /\ UNCHANGED recovered
    /\ UNCHANGED netVars
    /\ UNCHANGED <<given, computed>>
    /\ UNCHANGED runVars

\* The driver with the listener and the kernel log: tasks are started and
\* waited for while OOM events come in.
Next ==
    \/ \E k \in Starts, t \in TaskIDs : StartTask(k, t)
    \/ \E k \in Starts : StartTaskRegister(k)
    \/ \E k \in Starts : StartTaskPrepare(k)
    \/ \E k \in Starts : StartTaskDescribe(k)
    \/ \E k \in Starts : StartTaskSet(k)
    \/ \E s \in Starts : ChildExit(s)
    \/ \E w \in Waits, t \in TaskIDs : WaitTask(w, t)
    \/ \E w \in Waits : WaitExec(w)
    \/ \E w \in Waits : WaitTimeout(w)
    \/ \E w \in Waits : WaitOOM(w)
    \/ \E w \in Waits : WaitDeregister(w)
    \/ \E m \in Machines : KernelOOM(m)
    \/ LoopRegister
    \/ LoopDeregister
    \/ LoopOOM

Spec == Init /\ [][Next]_vars

\* The operations on the task registry, with the listener left to itself.
NextTasks ==
    \/ \E k \in Starts, t \in TaskIDs : StartTask(k, t)
    \/ \E k \in Starts : StartTaskRegister(k)
    \/ \E k \in Starts : StartTaskPrepare(k)
    \/ \E k \in Starts : StartTaskDescribe(k)
    \/ \E k \in Starts : StartTaskSet(k)
    \/ \E s \in Starts : ChildExit(s)
    \/ \E s \in Starts : HandleRun(s)
    \/ \E w \in Waits, t \in TaskIDs : WaitTask(w, t)
    \/ \E t \in TaskIDs : StopTask(t)
    \/ \E t \in TaskIDs, force \in BOOLEAN : DestroyTask(t, force)
    \/ \E t \in TaskIDs : InspectTask(t)
    \/ \E t \in TaskIDs : TaskStats(t)
    \/ \E t \in TaskIDs : SignalTask(t)
    \/ \E t \in TaskIDs, cmdLen \in 0..1 : ExecTask(t, cmdLen)
    \/ \E t \in TaskIDs, cmdLen \in 0..1 : ExecTaskStreamingRaw(t, cmdLen)

SpecTasks == Init /\ [][NextTasks]_vars

\* -------------------------------------------- the listener with any client

ClientRegister(m) ==
    /\ Register(m)
    /\ granted' = [granted EXCEPT ![m] = Len(chanId) + 1]
    /\ UNCHANGED <<deregister, oom, ids, loopPc, loopOom, delivered,
                   revoked, nOoms, nDeregs>>
    /\ UNCHANGED driverVars
    /\ UNCHANGED recovered
    /\ UNCHANGED netVars
    /\ UNCHANGED <<given, computed>>
    /\ UNCHANGED runVars

ClientDeregister(m) ==
    /\ nDeregs < MaxDeregs
    /\ nDeregs' = nDeregs + 1
    /\ Deregister(m)
    /\ granted' = [granted EXCEPT ![m] = NoChan]
    /\ revoked' = IF /\ granted[m] # NoChan
                     /\ delivered[granted[m]] = 0
                     /\ ~EventPending(m)
                  THEN revoked \cup {granted[m]}
                  ELSE revoked
    /\ UNCHANGED <<register, oom, ids, loopPc, loopOom, chanId, delivered,
                   nOoms>>
    /\ UNCHANGED driverVars
    /\ UNCHANGED recovered
    /\ UNCHANGED netVars
    /\ UNCHANGED <<given, computed>>
    /\ UNCHANGED runVars

\* A client receives from a channel that Register returned to it.
ClientReceive(c) ==
    /\ c \in 1..Len(chanId)
    /\ LoopSend(c)
    /\ UNCHANGED <<register, deregister, oom, chanId, granted, revoked,
                   nOoms, nDeregs>>
    /\ UNCHANGED driverVars
    /\ UNCHANGED recovered
    /\ UNCHANGED netVars
    /\ UNCHANGED <<given, computed>>
    /\ UNCHANGED runVars

NextListener ==
    \/ \E m \in Machines : ClientRegister(m)
    \/ \E m \in Machines : ClientDeregister(m)
    \/ \E m \in Machines : ParseLine(m)
    \/ LoopRegister
    \/ LoopDeregister
    \/ LoopOOM
    \/ \E c \in Chans : ClientReceive(c)

SpecListener == Init /\ [][NextListener]_vars

\* --------------------------------------------------- claims on the driver

\* The machine of the task a wait-loop waits for.
WaitMachine(w) == MachineOf(sess[waits[w].session].task)

\* Whether an OOM event was delivered on a channel registered for machine m.
DeliveredFor(m) ==
    \E c \in 1..Len(chanId) : chanId[c] = m /\ delivered[c] > 0

\* C1: with several tasks tracked, the result of WaitTask for task T is
\* marked out-of-memory only if an OOM event was delivered on a channel
\* registered for T's own machine, and the event a wait-loop takes from
\* the listener is never one for another task's machine.
C1_OOMRoutedToOwnTask ==
    \A w \in Waits :
        /\ waits[w].result.OOMKilled => DeliveredFor(WaitMachine(w))
        /\ waits[w].got # 0 => waits[w].got = WaitMachine(w)

\* C5: once handleWait has composed its result for a process that exited:
\* when no OOM event for the task's machine arrived in the grace window it
\* is the raw exit code and signal with the OOM flag unset; when one
\* arrived it has the OOM flag set and the out-of-memory error.
C5_WaitResultComposition ==
    \A w \in Waits :
        (/\ waits[w].pc \in {"dereg", "serve"}
         /\ sess[waits[w].session].st = "exited")
        => IF waits[w].got = WaitMachine(w)
           THEN /\ waits[w].result.OOMKilled
                /\ waits[w].result.Err = "Out of memory"
           ELSE waits[w].result =
                    [ExitCode |-> sess[waits[w].session].ps.ExitCode,
                     Signal |-> sess[waits[w].session].ps.Signal,
                     OOMKilled |-> FALSE, Err |-> "nil"]

\* C6: when StartTask has returned an error for a failure after the child
\* was launched, the session of that child is released (its executor shut
\* down and killed) and the registry does not hold it.
C6_FailedStartLeavesNoChild ==
    started.err \in AfterLaunch
    => /\ sess[started.session].st = "killed"
       /\ tasks[started.task] # started.session

\* C7: when StartTask has rejected a task for a configuration error, it
\* has invoked no image build step and launched no process.
C7_ConfigErrorBeforeBuild ==
    started.err = "validate"
    => /\ ~started.built
       /\ started.session = 0

\* The task id a StartTask call of slot k was entered with, in a step that
\* enters it.
EnteredWith(k) ==
    IF calls'[k].pc = "done" THEN started'.task ELSE calls'[k].task

\* C8: a StartTask call entered with a task id that is in the registry
\* returns the already-started error at once: the registry, the sessions
\* (no process is launched), d.oomChan and the listener's inputs (no
\* registration is made) are as before.
C8_StartOfTrackedTaskRefused ==
    [][\A k \in Starts :
         (/\ calls[k].pc = "idle"
          /\ calls'[k].pc # "idle"
          /\ tasks[EnteredWith(k)] # NoTask)
         => (/\ calls'[k].pc = "done"
             /\ started'.err = "exists"
             /\ started'.session = 0
             /\ UNCHANGED <<tasks, sess, oomChan, register, chanId, ids>>)]_vars

\* C8's case: a started task is in the registry and a second StartTask
\* call for its id has been refused.
C8_Witness ==
    /\ started.err = "exists"
    /\ tasks[started.task] # NoTask
    /\ sess[tasks[started.task]].procState = "running"
    /\ Len(sess) = 1
    /\ Len(chanId) = 1

\* C9: DestroyTask on a tracked task returns an error and leaves the
\* registry and the sessions as they are when the task is still running
\* and force is false; otherwise it returns no error, the task's session
\* is terminated, no other session is touched, and the id is no longer in
\* the registry.
C9_DestroyTask ==
    [][\A t \in TaskIDs, force \in BOOLEAN :
         (DestroyTask(t, force) /\ tasks[t] # NoTask)
         => IF sess[tasks[t]].procState = "running" /\ ~force
            THEN /\ err' = "error"
                 /\ UNCHANGED <<tasks, sess>>
            ELSE /\ err' = "nil"
                 /\ tasks'[t] = NoTask
                 /\ \A u \in TaskIDs : u # t => tasks'[u] = tasks[u]
                 /\ sess'[tasks[t]].st = "killed"
                 /\ \A s \in 1..Len(sess) : s # tasks[t] => sess'[s] = sess[s]]_vars

\* C9's cases: a task whose handle was still running has been destroyed by
\* force (its session is killed, its id is free), while a DestroyTask
\* without force has been refused for another running task.
C9_Witness ==
    /\ err = "error"
    /\ \E s \in 1..Len(sess) :
         /\ sess[s].procState = "running"
         /\ sess[s].st = "killed"
         /\ tasks[sess[s].task] = NoTask
    /\ \E s \in 1..Len(sess) :
         /\ sess[s].procState = "running"
         /\ sess[s].st = "running"
         /\ tasks[sess[s].task] = s

\* A step of one of the operations that take a task id, for task t; the
\* exec operations with a command of cmdLen words.
Operation(t, cmdLen) ==
    \/ \E w \in Waits : WaitTask(w, t)
    \/ StopTask(t)
    \/ \E force \in BOOLEAN : DestroyTask(t, force)
    \/ InspectTask(t)
    \/ TaskStats(t)
    \/ SignalTask(t)
    \/ ExecTask(t, cmdLen)
    \/ ExecTaskStreamingRaw(t, cmdLen)

\* C10: for a task id that is not in the registry, each of these operations
\* (exec with a non-empty command) returns the task-not-found error and
\* changes nothing else; for an id in the registry none of them returns
\* the task-not-found error, and neither does an exec with an empty
\* command.
C10_TaskNotFound ==
    [][\A t \in TaskIDs :
         /\ (tasks[t] = NoTask /\ Operation(t, 1))
            => (/\ err' = "ErrTaskNotFound"
                /\ UNCHANGED <<tasks, oomChan, sess, calls, started, waits>>
                /\ UNCHANGED listenerVars)
         /\ (tasks[t] # NoTask /\ Operation(t, 1))
            => err' # "ErrTaskNotFound"
         /\ (ExecTask(t, 0) \/ ExecTaskStreamingRaw(t, 0))
            => err' # "ErrTaskNotFound"]_vars

\* C10's cases: an operation has returned task-not-found while one task
\* was never started and another was started and has been destroyed.
C10_Witness ==
    /\ err = "ErrTaskNotFound"
    /\ \E t \in TaskIDs :
         /\ tasks[t] = NoTask
         /\ \A s \in 1..Len(sess) : sess[s].task # t
    /\ \E s \in 1..Len(sess) :
         /\ sess[s].procState # "none"
         /\ tasks[sess[s].task] = NoTask

\* ------------------------------------------------- claims on the listener

\* C2: once Register(M) has returned channel c, an OOM event for M produced
\* afterwards (with no Deregister(M) call and no other event for M in
\* between) is offered by the loop on c, whatever order the loop takes its
\* pending register, deregister and event inputs in: every step that takes
\* such an event off the event queue finds c registered for M and goes on
\* to send on it.
C2_EventReachesRegisteredChannel ==
    [][(/\ oom # <<>>
        /\ oom' = Tail(oom)
        /\ Head(oom).due # NoChan)
       => (/\ ids[Head(oom).MachineID] = Head(oom).due
           /\ loopPc' = "send")]_vars

\* The listener has nothing left to do.
Quiescent ==
    /\ register = <<>>
    /\ deregister = <<>>
    /\ oom = <<>>
    /\ loopPc = "select"

\* C3: when Deregister(M) is called after Register(M) returned channel c
\* and before any OOM event for M arrived, no event is ever delivered on c,
\* and once the listener has worked off its inputs it holds no
\* registration of c for M.
C3_DeregisterWithdrawsRegistration ==
    \A c \in revoked :
        /\ delivered[c] = 0
        /\ Quiescent => ids[chanId[c]] # c

\* C4: a channel returned by Register receives at most one OOM event, and
\* after that delivery the map never holds the channel's registration
\* again, however many events for the machine follow; and every step in
\* which the loop is done with an event for M (it found no registration,
\* or its send was received) leaves the map without a registration for M.
C4_AtMostOneDelivery ==
    /\ [](\A c \in 1..Len(chanId) :
            /\ delivered[c] <= 1
            /\ delivered[c] = 1 => ids[chanId[c]] # c)
    /\ [][/\ (loopPc = "select" /\ oom # <<>> /\ oom' = Tail(oom)
               /\ loopPc' = "select")
              => ids'[Head(oom).MachineID] = NoChan
          /\ (loopPc = "send" /\ loopPc' = "select")
              => ids'[loopOom.MachineID] = NoChan]_vars

\* C4's case: machine M was registered once, that channel got its
\* delivery, and a further event for M has been processed by the loop.
C4_Witness ==
    \E c \in 1..Len(chanId) :
        /\ delivered[c] = 1
        /\ \A d \in 1..Len(chanId) : chanId[d] = chanId[c] => d = c
        /\ nOoms >= 2
        /\ oom = <<>>
        /\ loopPc = "select"
        /\ \A m \in Machines : m # chanId[c] => granted[m] = NoChan /\ ids[m] = NoChan

\* --------------------------------------------------------------- RecoverTask

\* Sessions that RecoverTask may have reattached to, at most.
MaxSessions == 2

\* A nil *drivers.TaskHandle.
NilHandle == 0

\* RecoverTask without the look-up of the id in the registry.
RecoverTaskNoCheck(h) ==
    /\ h # NilHandle
    /\ Len(sess) < MaxSessions
    /\ sess' = Append(sess, [Session(h) EXCEPT !.procState = "running"])
    /\ tasks' = [tasks EXCEPT ![h] = Len(sess) + 1]
    /\ err' = "nil"
    /\ recovered' = Recovery(h, "nil", Len(sess) + 1)
    /\ UNCHANGED <<oomChan, calls, started, waits>>
    /\ UNCHANGED listenerVars
    /\ UNCHANGED netVars
    /\ UNCHANGED <<given, computed>>
    /\ UNCHANGED runVars

\* RecoverTask(handle): a nil handle is an error; a tracked id returns nil
\* at once; otherwise the driver state is decoded, the executor of the
\* handle is reattached to (a session not launched by this driver process),
\* the machine is described, and the new handle is stored and run.
RecoverTask(h) ==
    /\ IF h = NilHandle
       THEN /\ err' = "error"
            /\ recovered' = Recovery(NoTask, "error", 0)
            /\ UNCHANGED <<tasks, sess>>
       ELSE IF tasks[h] # NoTask
       THEN /\ err' = "nil"
            /\ recovered' = Recovery(h, "nil", 0)
            /\ UNCHANGED <<tasks, sess>>
       ELSE \E fail \in {"decode", "reattach", "describe", "nil"} :
              IF fail \in {"decode", "reattach"}
              THEN /\ err' = "error"
                   /\ recovered' = Recovery(h, fail, 0)
                   /\ UNCHANGED <<tasks, sess>>
              ELSE /\ Len(sess) < MaxSessions
                   /\ err' = IF fail = "nil" THEN "nil" ELSE "error"
                   /\ recovered' = Recovery(h, fail, Len(sess) + 1)
                   /\ IF fail = "describe"
                      THEN /\ sess' = Append(sess, Session(h))
                           /\ tasks' = tasks
                      ELSE /\ sess' = Append(sess,
                                  [Session(h) EXCEPT !.procState = "running"])
                           /\ tasks' = [tasks EXCEPT ![h] = Len(sess) + 1]
    /\ UNCHANGED <<oomChan, calls, started, waits>>
    /\ UNCHANGED listenerVars
    /\ UNCHANGED netVars
    /\ UNCHANGED <<given, computed>>
    /\ UNCHANGED runVars

\* Tasks are started and recovered.
NextRecover ==
    \/ \E k \in Starts, t \in TaskIDs : StartTask(k, t)
    \/ \E k \in Starts : StartTaskRegister(k)
    \/ \E k \in Starts : StartTaskPrepare(k)
    \/ \E k \in Starts : StartTaskDescribe(k)
    \/ \E k \in Starts : StartTaskSet(k)
    \/ \E h \in TaskIDs \cup {NilHandle} : RecoverTask(h)

SpecRecover == Init /\ [][NextRecover]_vars

\* C11: a RecoverTask call for a task id that is in the registry (put there
\* by StartTask or by an earlier RecoverTask) returns nil, reattaches to no
\* executor (no session is added), leaves the registry with the handle it
\* holds and every session, the handles' run loops included, as they are.
C11_RecoverTaskIdempotent ==
    [][\A h \in TaskIDs :
         (RecoverTask(h) /\ tasks[h] # NoTask)
         => (/\ err' = "nil"
             /\ recovered'.err = "nil"
             /\ recovered'.session = 0
             /\ UNCHANGED <<tasks, sess, calls, started, waits, oomChan>>
             /\ UNCHANGED listenerVars)]_vars

\* C11's case: RecoverTask has returned nil without reattaching for an id
\* that is in the registry, while another id in the registry was put there
\* by StartTask.
C11_Witness ==
    /\ recovered.err = "nil"
    /\ recovered.session = 0
    /\ recovered.task # NoTask
    /\ tasks[recovered.task] # NoTask
    /\ started.err = "nil"
    /\ started.task \notin {NoTask, recovered.task}
    /\ tasks[started.task] = started.session

\* ------------------------------------------------ the forwarding rules

\* Interface names: a prefix and the rest of the name.
Interfaces == {<<"vz-", "zone">>, <<"ve-", "web">>}
HasPrefix(name, prefix) == name[1] = prefix

\* The interface lists a machine may report (MachineProps.NetworkInterfaces
\* resolved to names).
InterfaceLists ==
    {<<>>} \cup {<<i>> : i \in Interfaces}
           \cup {p \in Interfaces \X Interfaces : p[1] # p[2]}

NoNet == [tracked |-> FALSE, isolated |-> FALSE, netIF |-> <<>>]

\* MachineProps.GetNetworkInterfaces: the names, none when the machine has
\* no interfaces or a look-up by index fails.
GetNetworkInterfaces(ifs, lookupOk) == IF lookupOk THEN ifs ELSE <<>>

\* A call ConfigureIPTablesRules(delete, ...) made for task t, whose
\* network isolation is (isolated) or is not externally managed.
FirewallCall(t, delete, isolated) ==
    [task |-> t, delete |-> delete, isolated |-> isolated]

\* StartTask: whether the forwarding rules are installed.
StartTaskInstallsAlways(isolated, ifs) == Len(ifs) > 0
StartTaskInstalls(isolated, ifs) == ~isolated /\ Len(ifs) > 0

\* StopTask: whether the forwarding rules are removed.
StopTaskRemovesAlways(isolated, netIF) ==
    Len(netIF) > 0 /\ ~HasPrefix(netIF[1], "vz-")
StopTaskRemoves(isolated, netIF) ==
    ~isolated /\ Len(netIF) > 0 /\ ~HasPrefix(netIF[1], "vz-")

\* StartTask of an untracked task, from the machine's description on: the
\* interfaces are resolved, the rules installed, and the handle is stored
\* unless the driver state cannot be set.
StartTaskNetwork(t, isolated, ifs, lookupOk, persistOk) ==
    /\ ~net[t].tracked
    /\ LET netIF == GetNetworkInterfaces(ifs, lookupOk) IN
       /\ fw' = IF StartTaskInstalls(isolated, ifs)
                THEN fw \cup {FirewallCall(t, FALSE, isolated)}
                ELSE fw
       /\ net' = IF persistOk
                 THEN [net EXCEPT ![t] = [tracked |-> TRUE,
                                          isolated |-> isolated,
                                          netIF |-> netIF]]
                 ELSE net
    /\ UNCHANGED <<listenerVars, driverVars, recovered, given, computed>>
    /\ UNCHANGED runVars

\* RecoverTask of an untracked task: the handle is rebuilt with the
\* interfaces the machine reports.
RecoverTaskNetwork(t, isolated, ifs, lookupOk) ==
    /\ ~net[t].tracked
    /\ net' = [net EXCEPT ![t] = [tracked |-> TRUE, isolated |-> isolated,
                                  netIF |-> GetNetworkInterfaces(ifs, lookupOk)]]
    /\ UNCHANGED <<fw, listenerVars, driverVars, recovered, given, computed>>
    /\ UNCHANGED runVars

\* StopTask of a tracked task, up to the executor's shutdown.
StopTaskNetwork(t) ==
    /\ net[t].tracked
    /\ fw' = IF StopTaskRemoves(net[t].isolated, net[t].netIF)
             THEN fw \cup {FirewallCall(t, TRUE, net[t].isolated)}
             ELSE fw
    /\ UNCHANGED <<net, listenerVars, driverVars, recovered, given, computed>>
    /\ UNCHANGED runVars

\* DestroyTask of a tracked task: the handle is dropped.
DestroyTaskNetwork(t) ==
    /\ net[t].tracked
    /\ net' = [net EXCEPT ![t] = NoNet]
    /\ UNCHANGED <<fw, listenerVars, driverVars, recovered, given, computed>>
    /\ UNCHANGED runVars

NextNetwork ==
    \/ \E t \in TaskIDs, isolated \in BOOLEAN, ifs \in InterfaceLists,
          lookupOk \in BOOLEAN, persistOk \in BOOLEAN :
         StartTaskNetwork(t, isolated, ifs, lookupOk, persistOk)
    \/ \E t \in TaskIDs, isolated \in BOOLEAN, ifs \in InterfaceLists,
          lookupOk \in BOOLEAN :
         RecoverTaskNetwork(t, isolated, ifs, lookupOk)
    \/ \E t \in TaskIDs : StopTaskNetwork(t)
    \/ \E t \in TaskIDs : DestroyTaskNetwork(t)

SpecNetwork == Init /\ [][NextNetwork]_vars

\* C12: no call of the firewall-rule service is ever made for a task whose
\* network isolation is externally managed: a StartTask or a StopTask step
\* for such a task, whatever interfaces its machine reports, leaves the
\* calls made as they are.
C12_IsolatedTaskNeverTouchesFirewall ==
    /\ [](\A c \in fw : ~c.isolated)
    /\ [][\A t \in TaskIDs :
            /\ (StopTaskNetwork(t) /\ net[t].isolated) => fw' = fw
            /\ (\E ifs \in InterfaceLists, lookupOk, persistOk \in BOOLEAN :
                  StartTaskNetwork(t, TRUE, ifs, lookupOk, persistOk))
               => fw' = fw]_vars

\* C12's case: a task with externally managed isolation is tracked, its
\* machine reports an interface that StopTask would otherwise remove the
\* rules of, and the rules of another task were installed and removed.
C12_Witness ==
    \E t, u \in TaskIDs :
        /\ net[t].tracked /\ net[t].isolated
        /\ Len(net[t].netIF) > 0 /\ ~HasPrefix(net[t].netIF[1], "vz-")
        /\ \E c, d \in fw : c.task = u /\ d.task = u /\ ~c.delete /\ d.delete

\* ------------------------------------------------------------------ Validate

\* Validate is applied to any configuration.
InitValidate ==
    /\ InitProgram
    /\ given \in Configs
    /\ computed = [done |-> FALSE]

ApplyValidate ==
    /\ ~computed.done
    /\ computed' = [done |-> TRUE, value |-> Validate(given)]
    /\ UNCHANGED <<given, listenerVars, driverVars, recovered, netVars>>
    /\ UNCHANGED runVars

SpecValidate == InitValidate /\ [][ApplyValidate]_vars

\* The errors of the four mutual-exclusion rules.
MutualExclusionErrors ==
    {"boot and process_two may not be combined",
     "volatile and user_namespacing may not be combined",
     "read_only and user_namespacing may not be combined",
     "nixos and packages may not be combined"}

\* The disallowed combinations, over the fields as given.
DisallowedCombination(c) ==
    \/ c.Boot /\ c.ProcessTwo
    \/ c.Volatile # "" /\ c.UserNamespacing
    \/ c.ReadOnly /\ c.UserNamespacing
    \/ c.NixOS # "" /\ Len(c.NixPackages) > 0

\* C13: Validate returns an error for every configuration with boot and
\* process_two, with a volatile mode (a non-empty volatile field) and
\* user_namespacing, with read_only and user_namespacing, or with nixos and
\* a non-empty package list, whatever the other fields are; and for a
\* configuration with none of these it returns none of the four
\* mutual-exclusion errors.
C13_MutualExclusionsRejected ==
    computed.done =>
        /\ DisallowedCombination(given) => computed.value # "nil"
        /\ ~DisallowedCombination(given)
           => computed.value \notin MutualExclusionErrors

\* C13's case: Validate has rejected, by the last mutual-exclusion rule, a
\* configuration with nixos and packages and no other fault.
C13_Witness ==
    /\ computed.done
    /\ computed.value = "nixos and packages may not be combined"
    /\ given.NixOS # "" /\ Len(given.NixPackages) > 0
    /\ ~(given.Boot /\ given.ProcessTwo)
    /\ given.UserNamespacing /\ given.Volatile = "" /\ ~given.ReadOnly

\* Whether the rules Validate applies before the rule on the image "/" let
\* the configuration pass.
PassesEarlierRules(c) ==
    Validate([c EXCEPT !.Image = <<"/", "dir">>, !.ImageDownload = <<>>,
                       !.NixOS = "", !.NixPackages = <<>>]) = "nil"

\* C14: Validate returns the root-image error exactly for a configuration
\* whose image is "/" with ephemeral unset and no volatile mode set (an
\* empty volatile field): with ephemeral or any volatile mode it does not
\* return it, and otherwise, when no earlier rule fails, it does.
C14_RootImageNeedsEphemeralOrVolatile ==
    computed.done =>
        LET rejected == computed.value =
              "starting a container from the root directory is not supported. Use ephemeral or volatile"
            unprotected == /\ given.Image = Root
                           /\ ~given.Ephemeral
                           /\ given.Volatile = ""
        IN /\ rejected => unprotected
           /\ (unprotected /\ PassesEarlierRules(given)) => rejected

\* ---------------------------------------------------------- machine names

\* Strings are sequences of characters. The characters the names of the
\* model are made of: "a", "b" and "-" are in the class [a-zA-Z0-9-],
\* "." and "_" are not.
Allowed == {"a", "b", "-"}

\* The length the sanitized task name is cut to.
SaneNameCut == 27

\* Names are made of at most MaxPieces pieces: single characters and one
\* long run of letters, so that names shorter and longer than the cut occur.
MaxPieces == 3
MaxPairPieces == 2
LongRun == [i \in 1..(SaneNameCut - 1) |-> "a"]
Pieces == {<<"a">>, <<"b">>, <<"-">>, <<".">>, <<"_">>, LongRun}

RECURSIVE Flatten(_)
Flatten(pieces) ==
    IF pieces = <<>> THEN <<>> ELSE Head(pieces) \o Flatten(Tail(pieces))

NamesOf(n) ==
    {Flatten(ps) : ps \in {q \in UNION {[1..k -> Pieces] : k \in 0..n} :
        Cardinality({i \in DOMAIN q : q[i] = LongRun}) <= 1}}
Names == NamesOf(MaxPieces)

\* Allocation ids: UUIDs, all of one length.
AllocIDs == {<<"u", "1">>, <<"u", "2">>}

\* sanitizeName.ReplaceAllString(name, "-"): every maximal run of
\* characters outside the class becomes one "-".
RECURSIVE ReplaceAllString(_, _)
ReplaceAllString(name, inRun) ==
    IF name = <<>> THEN <<>>
    ELSE IF Head(name) \in Allowed
    THEN <<Head(name)>> \o ReplaceAllString(Tail(name), FALSE)
    ELSE IF inRun THEN ReplaceAllString(Tail(name), TRUE)
    ELSE <<"-">> \o ReplaceAllString(Tail(name), TRUE)

\* The cut of the sanitized name.
CutNone(saneName) == saneName
Cut(saneName) ==
    SubSeq(saneName, 1, IF Len(saneName) > SaneNameCut
                        THEN SaneNameCut ELSE Len(saneName))

\* StartTask: the part of the machine name before the allocation id.
SaneName(name) == Cut(ReplaceAllString(name, FALSE))

\* StartTask: driverConfig.Machine.
MachineName(name, allocID, sanitize) ==
    IF sanitize THEN SaneName(name) \o <<"-">> \o allocID
    ELSE name \o <<"-">> \o allocID

\* The sanitization is applied to any task name.
InitSanitize ==
    /\ InitProgram
    /\ given \in Names
    /\ computed = [done |-> FALSE]

ApplySanitize ==
    /\ ~computed.done
    /\ computed' = [done |-> TRUE, value |-> SaneName(given)]
    /\ UNCHANGED <<given, listenerVars, driverVars, recovered, netVars>>
    /\ UNCHANGED runVars

SpecSanitize == InitSanitize /\ [][ApplySanitize]_vars

\* C15: the sanitized part of the machine name is at most 27 characters
\* long for every task name, sanitizing it again returns it unchanged, and
\* a name of allowed characters no longer than the bound is returned as
\* it is.
C15_SanitizeIdempotentAndBounded ==
    computed.done =>
        /\ Len(computed.value) <= SaneNameCut
        /\ SaneName(computed.value) = computed.value
        /\ ((\A i \in 1..Len(given) : given[i] \in Allowed)
             /\ Len(given) <= SaneNameCut) => computed.value = given

\* C15's case: a name longer than the bound with characters outside the
\* class has been sanitized to a name of exactly the bound's length.
C15_Witness ==
    /\ computed.done
    /\ Len(given) > SaneNameCut
    /\ \E i \in 1..Len(given) : given[i] \notin Allowed
    /\ Len(computed.value) = SaneNameCut
    /\ computed.value # SubSeq(given, 1, SaneNameCut)

\* The machine names of two task specs are derived.
TaskSpecs == [Name : NamesOf(MaxPairPieces), AllocID : AllocIDs,
              SanitizeNames : BOOLEAN]

InitMachineName ==
    /\ InitProgram
    /\ given \in TaskSpecs \X TaskSpecs
    /\ computed = [done |-> FALSE]

ApplyMachineName ==
    /\ ~computed.done
    /\ computed' =
         [done |-> TRUE,
          value |-> [i \in 1..2 |->
                       MachineName(given[i].Name, given[i].AllocID,
                                   given[i].SanitizeNames)]]
    /\ UNCHANGED <<given, listenerVars, driverVars, recovered, netVars>>
    /\ UNCHANGED runVars

SpecMachineName == InitMachineName /\ [][ApplyMachineName]_vars

\* C16: two task specs that differ in task name or in allocation id derive
\* different machine names.
C16_MachineNameUnique ==
    computed.done =>
        ((given[1].Name # given[2].Name \/ given[1].AllocID # given[2].AllocID)
         => computed.value[1] # computed.value[2])

\* --------------------------------------------------------------------- ports

\* StartTask from the image builds to the launch is applied to any input.
InitPrepare ==
    /\ InitProgram
    /\ given \in PrepareInputs
    /\ computed = [done |-> FALSE]

ApplyPrepare ==
    /\ ~computed.done
    /\ computed' = [done |-> TRUE,
                    value |-> Prepare(given[1], given[2], given[3], given[4],
                                      given[5])]
    /\ UNCHANGED <<given, listenerVars, driverVars, recovered, netVars>>
    /\ UNCHANGED runVars

SpecPrepare == InitPrepare /\ [][ApplyPrepare]_vars

\* Whether a label of the ports list is not among the allocated ports.
UnallocatedPort(pi) ==
    \E i \in 1..Len(pi.Ports) :
        \A j \in 1..Len(pi.Allocated.list) :
            pi.Allocated.list[j].Label # pi.Ports[i]

\* C17: StartTask returns an error, and so does not go on to launch the
\* process (which it does only when this part returns no error), when a
\* label of the ports list is not an allocated port and when port_map and
\* ports are both declared.
C17_PortErrorsRejected ==
    computed.done =>
        ((\/ UnallocatedPort(given[2])
          \/ DOMAIN given[2].PortMap # {} /\ Len(given[2].Ports) > 0)
         => computed.value.err \notin {"nil", "launch"})

\* C17's case: StartTask has returned the port error for a ports list with
\* an unallocated label, with builds that succeeded and a valid
\* configuration.
C17_Witness ==
    /\ computed.done
    /\ computed.value.err = "ports"
    /\ UnallocatedPort(given[2])
    /\ ~given[2].Allocated.isNil
    /\ DOMAIN given[2].PortMap = {}
    /\ Validate(given[1]) = "nil"

\* The ports are resolved in several builds from the same input.
MaxBuilds == 2

InitPorts ==
    /\ InitProgram
    /\ given \in PortInputs
    /\ computed = [done |-> FALSE, value |-> <<>>]

ApplyResolvePorts ==
    /\ Len(computed.value) < MaxBuilds
    /\ computed' = [done |-> TRUE,
                    value |-> Append(computed.value, ResolvePorts(given))]
    /\ UNCHANGED <<given, listenerVars, driverVars, recovered, netVars>>
    /\ UNCHANGED runVars

SpecPorts == InitPorts /\ [][ApplyResolvePorts]_vars

\* The allocated port with a label.
AllocatedPort(pi, label) ==
    CHOOSE p \in {pi.Allocated.list[j] : j \in 1..Len(pi.Allocated.list)} :
        p.Label = label

\* C18: all builds from the same declared ports and the same allocated
\* ports give the same result; when the ports list resolves, the result
\* has one pair for each declared label and no other, whose external port
\* is the allocated host port and whose internal port is the allocated
\* target port, the host port when the target is 0.
C18_PortResolutionDeterministic ==
    \A i \in 1..Len(computed.value) :
        /\ \A j \in 1..Len(computed.value) :
               computed.value[i] = computed.value[j]
        /\ (computed.value[i].err = "nil" /\ Len(given.Ports) > 0)
           => /\ DOMAIN computed.value[i].Port =
                     {given.Ports[k] : k \in 1..Len(given.Ports)}
              /\ \A label \in DOMAIN computed.value[i].Port :
                   LET p == AllocatedPort(given, label) IN
                   /\ computed.value[i].Port[label][1] = p.Value
                   /\ computed.value[i].Port[label][2] =
                        IF p.To # 0 THEN p.To ELSE p.Value

\* C18's case: two builds have resolved two declared labels, one with a
\* target port and one without.
C18_Witness ==
    /\ Len(computed.value) = 2
    /\ computed.value[2].err = "nil"
    /\ DOMAIN computed.value[2].Port = {"http", "db"}
    /\ computed.value[2].Port["http"] = <<8080, 80>>
    /\ computed.value[2].Port["db"] = <<5432, 5432>>

\* ---- MachineConfig.ConfigArray
\* The orders in which a range statement can walk a Go map: every
\* enumeration of its keys; the language leaves the choice to each walk.
RangeOrders(map) ==
    {o \in [1..Cardinality(DOMAIN map) -> DOMAIN map] :
        \A k \in DOMAIN map : \E i \in DOMAIN o : o[i] = k}

\* The configurations ConfigArray is applied to. An argument is the
\* sequence of the pieces it is concatenated from. Image is <<>> (not set)
\* or the image path with what os.Stat finds there.
ArgConfigs ==
    [Image : {<<>>, <<"/img", "dir">>, <<"/img", "file">>, <<"/img", "missing">>},
     LinkJournal : {""}, Directory : {""}, Boot : BOOLEAN,
     Ephemeral : {FALSE}, NetworkVeth : {FALSE}, NetworkNamespace : {""},
     ProcessTwo : {FALSE}, ReadOnly : {FALSE}, UserNamespacing : {TRUE},
     Console : {""}, Machine : {"web-u1"}, PivotRoot : {""},
     ResolvConf : {""}, User : {""}, Volatile : {"", "yes"},
     WorkingDirectory : {""},
     Bind : {EmptyMap, [k \in {"/a", "/b"} |-> "/mnt" \o k]},
     BindReadOnly : {EmptyMap, [k \in {"/ro"} |-> "/ro"]},
     Environment : {EmptyMap, [k \in {"A", "B"} |-> "1"]},
     Port : {EmptyMap,
             [k \in {"http", "db"} |->
                 IF k = "http" THEN <<8080, 80>> ELSE <<5432, 5432>>]},
     Properties : {[k \in {"MemoryMax"} |-> "256"],
                   [k \in {"MemoryHigh", "MemoryMax"} |->
                       IF k = "MemoryHigh" THEN "128" ELSE "256"]},
     Capability : {<<>>, <<"CAP_NET_ADMIN", "CAP_SYS_ADMIN">>},
     NetworkZone : {""}, Command : {<<>>, <<"/bin/sh">>}]

\* args = append(args, flag, value) when the string is set.
FlagValue(set, flag, value) == IF set THEN <<<<flag>>, <<value>>>> ELSE <<>>
\* args = append(args, flag) when the switch is on.
Flag(on, flag) == IF on THEN <<<<flag>>>> ELSE <<>>
\* args = append(args, fmt.Sprintf("flag=%s", value)) when the string is set.
FlagEquals(set, flag, value) == IF set THEN <<<<flag, "=", value>>>> ELSE <<>>

\* for k, v := range map { args = append(args, flag, k+sep+v) }, the map
\* walked in the order o.
RECURSIVE RangeArgs(_, _, _, _)
RangeArgs(map, o, flag, sep) ==
    IF o = <<>> THEN <<>>
    ELSE <<<<flag>>, <<Head(o), sep, map[Head(o)]>>>>
         \o RangeArgs(map, Tail(o), flag, sep)

\* for _, v := range c.Port { args = append(args, "-p", v) }
RECURSIVE RangePorts(_, _)
RangePorts(map, o) ==
    IF o = <<>> THEN <<>>
    ELSE <<<<"-p">>, <<map[Head(o)][1], ":", map[Head(o)][2]>>>>
         \o RangePorts(map, Tail(o))

\* The orders the five range statements of one ConfigArray call take.
WalkOrders(c) ==
    [Bind : RangeOrders(c.Bind), BindReadOnly : RangeOrders(c.BindReadOnly),
     Environment : RangeOrders(c.Environment), Port : RangeOrders(c.Port),
     Properties : RangeOrders(c.Properties)]

\* MachineConfig.ConfigArray with the range statements walking in the
\* orders o: the error and the argument vector.
ConfigArray(c, o) ==
    IF c.Image # <<>> /\ c.Image[2] = "missing"
    THEN [err |-> "stat", args |-> <<>>]
    ELSE [err |-> "nil",
          args |->
            (IF c.Image # <<>>
             THEN <<<<IF c.Image[2] = "dir" THEN "-D" ELSE "-i">>,
                    <<c.Image[1]>>>>
             ELSE <<>>)
            \o FlagValue(c.LinkJournal # "", "--link-journal", c.LinkJournal)
            \o FlagValue(c.Directory # "", "--directory", c.Directory)
            \o Flag(c.Boot, "--boot")
            \o Flag(c.Ephemeral, "--ephemeral")
            \o Flag(c.NetworkVeth, "--network-veth")
            \o FlagValue(c.NetworkNamespace # "", "--network-namespace-path",
                         c.NetworkNamespace)
            \o Flag(c.ProcessTwo, "--as-pid2")
            \o Flag(c.ReadOnly, "--read-only")
            \o Flag(c.UserNamespacing, "-U")
            \o FlagEquals(c.Console # "", "--console", c.Console)
            \o FlagValue(c.Machine # "", "--machine", c.Machine)
            \o FlagValue(c.PivotRoot # "", "--pivot-root", c.PivotRoot)
            \o FlagValue(c.ResolvConf # "", "--resolv-conf", c.ResolvConf)
            \o FlagValue(c.User # "", "--user", c.User)
            \o FlagEquals(c.Volatile # "", "--volatile", c.Volatile)
            \o FlagValue(c.WorkingDirectory # "", "--chdir", c.WorkingDirectory)
            \o RangeArgs(c.Bind, o.Bind, "--bind", ":")
            \o RangeArgs(c.BindReadOnly, o.BindReadOnly, "--bind-ro", ":")
            \o RangeArgs(c.Environment, o.Environment, "-E", "=")
            \o RangePorts(c.Port, o.Port)
            \o RangeArgs(c.Properties, o.Properties, "--property", "=")
            \o (IF Len(c.Capability) > 0
                THEN <<<<"--capability">>, c.Capability>>
                ELSE <<>>)
            \o FlagEquals(Len(c.NetworkZone) > 0, "--network-zone",
                          c.NetworkZone)
            \o [i \in 1..Len(c.Command) |-> <<c.Command[i]>>]]

InitConfigArray ==
    /\ InitProgram
    /\ given \in ArgConfigs
    /\ computed = [done |-> FALSE, value |-> <<>>]

\* One build of the argument vector from the configuration.
ApplyConfigArray ==
    /\ Len(computed.value) < MaxBuilds
    /\ \E o \in WalkOrders(given) :
         computed' = [done |-> TRUE,
                      value |-> Append(computed.value, ConfigArray(given, o))]
    /\ UNCHANGED <<given, listenerVars, driverVars, recovered, netVars>>
    /\ UNCHANGED runVars

SpecConfigArray == InitConfigArray /\ [][ApplyConfigArray]_vars

\* C19: two builds of the argument vector from the same configuration give
\* the same arguments in the same order, the repeated --bind, --bind-ro, -E,
\* -p and --property arguments included.
C19_ArgumentVectorDeterministic ==
    \A i, j \in 1..Len(computed.value) :
        computed.value[i] = computed.value[j]

\* ---- image resolution: prepareNixOS, prepareNixPackages
\* The steps of the image resolution, in the order StartTask reaches them:
\* the two builds and the requisites query of prepareNixOS, then the
\* profile build, the closure build, the reading of the profile directory
\* and the requisites query of prepareNixPackages.
StepOrder ==
    <<"nixos.closure", "nixos.toplevel", "nixos.requisites",
      "packages.profile", "packages.closure", "packages.readProfile",
      "packages.requisites">>

\* The steps after a step in that order.
LaterSteps(step) ==
    {StepOrder[j] : j \in {k \in 1..Len(StepOrder) :
        \E i \in 1..Len(StepOrder) : StepOrder[i] = step /\ i < k}}

\* How a run of the build tool ends: "ok", "exit" (cmd.Run returns an
\* error, the tool's standard error is in the buffer) or "unreadable" (the
\* tool has exited with 0 and its output or its link cannot be read).
RunOutcomes == {"ok", "exit", "unreadable"}

\* The pieces of an error text.
Text(t) == <<"text", t>>
Args(step) == <<"args", step>>
Stderr(step) == <<"stderr", step>>
RunErr(step) == <<"err", step>>
ReadErr(step) == <<"read", step>>

\* fmt.Errorf(prefix + "%v", e): the prefix followed by the text of e.
ErrorfDropped(prefix, e) == <<Text(prefix)>>
Errorf(prefix, e) == <<Text(prefix)>> \o e

\* The error a failed run of the build tool returns: "%v failed: %s. Err:
\* %v" of the arguments, the captured standard error and the error of
\* cmd.Run; the error of the decoder or of Readlink when the output is
\* unreadable.
RunError(step, r) ==
    IF r = "exit"
    THEN <<Args(step), Text(" failed: "), Stderr(step), Text(". Err: "),
           RunErr(step)>>
    ELSE <<ReadErr(step)>>

\* Where StartTask goes after prepareNixOS, and where it starts.
AfterNixOS(c) == IF isNixPackages(c) THEN "packages.profile" ELSE "rest"
FirstStep(c) == IF isNixOS(c) THEN "nixos.closure" ELSE AfterNixOS(c)

\* StartTask is at its first build step: nothing invoked, no result
\* written to the bind mounts, nothing launched, the task not in the
\* registry. failed is <<>> or the step that returned an error with the
\* way its run ended.
InitBuild ==
    /\ InitProgram
    /\ given \in StartConfigs
    /\ computed = [done |-> FALSE, pc |-> FirstStep(given), invoked |-> <<>>,
                   applied |-> {}, err |-> <<>>, failed |-> <<>>,
                   launched |-> FALSE, registered |-> FALSE]

\* The step has succeeded: its results (and those held back until now) are
\* written to c.BindReadOnly and StartTask goes on.
StepOk(step, next, results) ==
    computed' = [computed EXCEPT !.pc = next,
                                 !.invoked = Append(@, step),
                                 !.applied = @ \cup results]

\* The step has failed: StartTask returns the error.
StepFails(step, r, e) ==
    computed' = [computed EXCEPT !.done = TRUE, !.pc = "done",
                                 !.invoked = Append(@, step),
                                 !.err = e, !.failed = <<step, r>>]

\* nixBuildNixOS: nixBuild of the closure.
NixBuildClosure ==
    /\ computed.pc = "nixos.closure"
    /\ \E r \in RunOutcomes :
         IF r = "ok" THEN StepOk("nixos.closure", "nixos.toplevel", {})
         ELSE StepFails("nixos.closure", r,
                  Errorf("Build of the flake failed: ",
                      Errorf("buildClosure failed: ",
                             RunError("nixos.closure", r))))
    /\ UNCHANGED <<given, listenerVars, driverVars, recovered, netVars>>
    /\ UNCHANGED runVars

\* nixBuildNixOS: nixBuild of the toplevel; on success prepareNixOS binds
\* the toplevel and the closure's registration.
NixBuildToplevel ==
    /\ computed.pc = "nixos.toplevel"
    /\ \E r \in RunOutcomes :
         IF r = "ok"
         THEN StepOk("nixos.toplevel", "nixos.requisites",
                     {"nixos.closure", "nixos.toplevel"})
         ELSE StepFails("nixos.toplevel", r,
                  Errorf("Build of the flake failed: ",
                      Errorf("buildToplevel failed: ",
                             RunError("nixos.toplevel", r))))
    /\ UNCHANGED <<given, listenerVars, driverVars, recovered, netVars>>
    /\ UNCHANGED runVars

\* prepareNixOS: nixRequisites of the closure.
NixOSRequisites ==
    /\ computed.pc = "nixos.requisites"
    /\ \E r \in RunOutcomes :
         IF r = "ok"
         THEN StepOk("nixos.requisites", AfterNixOS(given),
                     {"nixos.requisites"})
         ELSE StepFails("nixos.requisites", r,
                  Errorf("Couldn't determine flake requisites: ",
                         RunError("nixos.requisites", r)))
    /\ UNCHANGED <<given, listenerVars, driverVars, recovered, netVars>>
    /\ UNCHANGED runVars

\* prepareNixPackages: nixBuildProfile.
NixBuildProfile ==
    /\ computed.pc = "packages.profile"
    /\ \E r \in RunOutcomes :
         IF r = "ok" THEN StepOk("packages.profile", "packages.closure", {})
         ELSE StepFails("packages.profile", r,
                  Errorf("Build of the flakes failed: ",
                         RunError("packages.profile", r)))
    /\ UNCHANGED <<given, listenerVars, driverVars, recovered, netVars>>
    /\ UNCHANGED runVars

\* prepareNixPackages: nixBuildClosure; on success the profile is bound.
NixBuildPackagesClosure ==
    /\ computed.pc = "packages.closure"
    /\ \E r \in RunOutcomes :
         IF r = "ok"
         THEN StepOk("packages.closure", "packages.readProfile",
                     {"packages.profile"})
         ELSE StepFails("packages.closure", r,
                  Errorf("Build of the flakes failed: ",
                         RunError("packages.closure", r)))
    /\ UNCHANGED <<given, listenerVars, driverVars, recovered, netVars>>
    /\ UNCHANGED runVars

\* prepareNixPackages: os.ReadDir of the profile and of its etc; on success
\* the entries and the closure's registration are bound.
ReadProfile ==
    /\ computed.pc = "packages.readProfile"
    /\ \E r \in {"ok", "unreadable"} :
         IF r = "ok"
         THEN StepOk("packages.readProfile", "packages.requisites",
                     {"packages.readProfile", "packages.closure"})
         ELSE StepFails("packages.readProfile", r,
                  Errorf("Couldn't read profile directory: ",
                         RunError("packages.readProfile", r)))
    /\ UNCHANGED <<given, listenerVars, driverVars, recovered, netVars>>
    /\ UNCHANGED runVars

\* prepareNixPackages: nixRequisites of the closure.
PackagesRequisites ==
    /\ computed.pc = "packages.requisites"
    /\ \E r \in RunOutcomes :
         IF r = "ok"
         THEN StepOk("packages.requisites", "rest", {"packages.requisites"})
         ELSE StepFails("packages.requisites", r,
                  Errorf("Couldn't determine flake requisites: ",
                         RunError("packages.requisites", r)))
    /\ UNCHANGED <<given, listenerVars, driverVars, recovered, netVars>>
    /\ UNCHANGED runVars

\* StartTask after the builds: the ports, Validate, the launch, the steps
\* after the launch and d.tasks.Set.
StartTaskRest ==
    /\ computed.pc = "rest"
    /\ \E pi \in PortInputs, launchOk \in BOOLEAN,
          fail \in AfterLaunch \cup {"nil"} :
         LET p == Prepare(given, pi, TRUE, TRUE, launchOk)
             e == IF p.err # "nil" THEN p.err ELSE fail
         IN computed' =
              [computed EXCEPT !.done = TRUE, !.pc = "done",
                  !.err = IF e = "nil" THEN <<>> ELSE <<Text(e)>>,
                  !.launched = (p.err = "nil"),
                  !.registered = (e = "nil")]
    /\ UNCHANGED <<given, listenerVars, driverVars, recovered, netVars>>
    /\ UNCHANGED runVars

NextBuild ==
    \/ NixBuildClosure
    \/ NixBuildToplevel
    \/ NixOSRequisites
    \/ NixBuildProfile
    \/ NixBuildPackagesClosure
    \/ ReadProfile
    \/ PackagesRequisites
    \/ StartTaskRest

SpecBuild == InitBuild /\ [][NextBuild]_vars

\* C20: when a step of the image resolution has failed, StartTask has
\* returned an error, which contains the standard error text the build tool
\* wrote in the failed run; the failed step was invoked once and is the
\* last step invoked; no result of the failed step or of a later step is
\* among the bind mounts; no process was launched and the task is not in
\* the registry.
C20_BuildFailureSurfaced ==
    computed.failed # <<>> =>
        LET step == computed.failed[1] IN
        /\ computed.done
        /\ computed.err # <<>>
        /\ computed.failed[2] = "exit" =>
               \E i \in 1..Len(computed.err) : computed.err[i] = Stderr(step)
        /\ Cardinality({i \in 1..Len(computed.invoked) :
                            computed.invoked[i] = step}) = 1
        /\ computed.invoked[Len(computed.invoked)] = step
        /\ computed.applied \cap ({step} \cup LaterSteps(step)) = {}
        /\ ~computed.launched
        /\ ~computed.registered

\* C20's case: with a system image and packages both given, the system
\* image was resolved and the closure build of the packages has failed
\* with a diagnostic, after the profile build succeeded.
C20_Witness ==
    /\ computed.failed = <<"packages.closure", "exit">>
    /\ computed.invoked = <<"nixos.closure", "nixos.toplevel",
                            "nixos.requisites", "packages.profile",
                            "packages.closure">>
    /\ computed.applied = {"nixos.closure", "nixos.toplevel",
                           "nixos.requisites"}
    /\ Stderr("packages.closure") \in
           {computed.err[i] : i \in 1..Len(computed.err)}

\* ---- network isolation in the built configuration
\* cfg.NetworkIsolation: <<>> (nil) or the path of the network namespace
\* the client supplies.
Isolations == {<<>>, <<"/var/run/netns/a">>, <<"/var/run/netns/b">>}

\* The task configurations the isolation step is applied to: any request
\* for user namespacing, network-veth, a network namespace of the task's
\* own and a network zone.
IsolationConfigs ==
    {[c EXCEPT !.UserNamespacing = u, !.NetworkVeth = v,
               !.NetworkNamespace = ns, !.NetworkZone = z] :
        c \in {x \in ArgConfigs :
                  /\ x.Bind = EmptyMap /\ x.BindReadOnly = EmptyMap
                  /\ x.Environment = EmptyMap /\ x.Port = EmptyMap
                  /\ DOMAIN x.Properties = {"MemoryMax"}
                  /\ x.Capability = <<>>},
        u \in BOOLEAN, v \in BOOLEAN, ns \in {"", "/own/netns"},
        z \in {"", "zone"}}

\* StartTask: under network isolation the namespace path is the supplied
\* one and user namespacing and network-veth are off.
NetworkIsolationPathOnly(c, iso) ==
    IF iso # <<>> THEN [c EXCEPT !.NetworkNamespace = iso[1]] ELSE c
NetworkIsolation(c, iso) ==
    IF iso # <<>>
    THEN [c EXCEPT !.NetworkNamespace = iso[1], !.UserNamespacing = FALSE,
                   !.NetworkVeth = FALSE]
    ELSE c

InitIsolation ==
    /\ InitProgram
    /\ given \in [c : IsolationConfigs, iso : Isolations]
    /\ computed = [done |-> FALSE]

\* StartTask builds the argument vector of the configuration after the
\* isolation step.
ApplyIsolation ==
    /\ ~computed.done
    /\ \E o \in WalkOrders(given.c) :
         computed' =
            [done |-> TRUE,
             value |-> ConfigArray(NetworkIsolation(given.c, given.iso), o)]
    /\ UNCHANGED <<given, listenerVars, driverVars, recovered, netVars>>
    /\ UNCHANGED runVars

SpecIsolation == InitIsolation /\ [][ApplyIsolation]_vars

\* Whether the argument vector has the argument arg.
HasArg(args, arg) == \E i \in 1..Len(args) : args[i] = arg

\* C21: under network isolation the argument vector built has the
\* --network-namespace-path flag followed by the supplied path, and has
\* neither the -U flag nor the --network-veth flag, whatever the task
\* configuration asks for.
C21_IsolationForcesNamespace ==
    (computed.done /\ given.iso # <<>> /\ computed.value.err = "nil") =>
        LET args == computed.value.args IN
        /\ \E i \in 1..(Len(args) - 1) :
               /\ args[i] = <<"--network-namespace-path">>
               /\ args[i + 1] = <<given.iso[1]>>
        /\ \A i \in 1..(Len(args) - 1) :
               args[i] = <<"--network-namespace-path">>
                   => args[i + 1] = <<given.iso[1]>>
        /\ ~HasArg(args, <<"-U">>)
        /\ ~HasArg(args, <<"--network-veth">>)

\* C21's case: the vector was built under isolation for a task that asks
\* for user namespacing, network-veth and a namespace of its own.
C21_Witness ==
    /\ computed.done
    /\ given.iso = <<"/var/run/netns/a">>
    /\ given.c.UserNamespacing
    /\ given.c.NetworkVeth
    /\ given.c.NetworkNamespace = "/own/netns"
    /\ computed.value.err = "nil"
    /\ Len(computed.value.args) > 0

\* ---- Shutdown, handleFingerprint, the end of handleWait
\* Shutdown: d.signalShutdown() cancels d.ctx and returns.
Shutdown ==
    /\ ~ctxDone
    /\ ctxDone' = TRUE
    /\ UNCHANGED <<fps, waitCtx, tail>>
    /\ UNCHANGED <<listenerVars, driverVars, recovered, netVars, given,
                   computed>>

\* Fingerprint: make the channel and start handleFingerprint, whose timer
\* is due at once.
Fingerprint(f) ==
    /\ fps[f].pc = "idle"
    /\ fps' = [fps EXCEPT ![f].pc = "select"]
    /\ UNCHANGED <<ctxDone, waitCtx, tail>>
    /\ UNCHANGED <<listenerVars, driverVars, recovered, netVars, given,
                   computed>>

\* The caller of Fingerprint cancels its ctx.
FingerprintCtxCancel(f) ==
    /\ fps[f].pc \in {"select", "send"}
    /\ ~fps[f].ctx
    /\ fps' = [fps EXCEPT ![f].ctx = TRUE]
    /\ UNCHANGED <<ctxDone, waitCtx, tail>>
    /\ UNCHANGED <<listenerVars, driverVars, recovered, netVars, given,
                   computed>>

\* handleFingerprint: case <-ticker.C: the timer is reset and the loop goes
\* to send the fingerprint on its unbuffered channel.
FingerprintTick(f) ==
    /\ fps[f].pc = "select"
    /\ fps' = [fps EXCEPT ![f].pc = "send"]
    /\ UNCHANGED <<ctxDone, waitCtx, tail>>
    /\ UNCHANGED <<listenerVars, driverVars, recovered, netVars, given,
                   computed>>

\* handleFingerprint: ch <- d.buildFingerprint() meets a receive of the
\* caller; the loop is back at its select.
FingerprintSend(f) ==
    /\ fps[f].pc = "send"
    /\ fps' = [fps EXCEPT ![f].pc = "select"]
    /\ UNCHANGED <<ctxDone, waitCtx, tail>>
    /\ UNCHANGED <<listenerVars, driverVars, recovered, netVars, given,
                   computed>>

\* handleFingerprint: case <-ctx.Done() or case <-d.ctx.Done(): return,
\* the deferred close(ch) runs.
FingerprintDone(f) ==
    /\ fps[f].pc = "select"
    /\ fps[f].ctx \/ ctxDone
    /\ fps' = [fps EXCEPT ![f].pc = "closed"]
    /\ UNCHANGED <<ctxDone, waitCtx, tail>>
    /\ UNCHANGED <<listenerVars, driverVars, recovered, netVars, given,
                   computed>>

\* The caller of WaitTask cancels its ctx.
WaitCtxCancel(w) ==
    /\ waits[w].pc \notin {"idle", "closed"}
    /\ ~waitCtx[w]
    /\ waitCtx' = [waitCtx EXCEPT ![w] = TRUE]
    /\ UNCHANGED <<ctxDone, fps, tail>>
    /\ UNCHANGED <<listenerVars, driverVars, recovered, netVars, given,
                   computed>>

\* handleWait: handle.exec.Wait(ctx) returns an error because ctx is
\* cancelled; the select is entered.
WaitExecCancelled(w) ==
    /\ waits[w].pc = "wait"
    /\ waitCtx[w]
    /\ waits' = [waits EXCEPT
                    ![w].pc = "select",
                    ![w].c = oomChan,
                    ![w].result =
                        [NoResult EXCEPT
                            !.Err = "executor: error waiting on process"]]
    /\ UNCHANGED <<tasks, oomChan, sess, calls, started, err>>
    /\ UNCHANGED <<listenerVars, recovered, netVars, given, computed,
                   runVars>>

\* handleWait, last loop: case ch <- result meets a receive of the caller.
WaitServe(w) ==
    /\ waits[w].pc = "serve"
    /\ waits' = [waits EXCEPT ![w].pc = "served"]
    /\ UNCHANGED <<tasks, oomChan, sess, calls, started, err>>
    /\ UNCHANGED <<listenerVars, recovered, netVars, given, computed,
                   runVars>>

\* handleWait, last loop: case <-ctx.Done() or case <-d.ctx.Done():
\* return, the deferred close(ch) runs.
WaitDone(w) ==
    /\ waits[w].pc \in {"serve", "served"}
    /\ waitCtx[w] \/ ctxDone
    /\ waits' = [waits EXCEPT ![w].pc = "closed"]
    /\ UNCHANGED <<tasks, oomChan, sess, calls, started, err>>
    /\ UNCHANGED <<listenerVars, recovered, netVars, given, computed,
                   runVars>>

NextShutdown ==
    \/ \E t \in TaskIDs : StartTask(1, t)
    \/ \E k \in Starts : \/ StartTaskRegister(k)
                         \/ StartTaskPrepare(k)
                         \/ StartTaskDescribe(k)
                         \/ StartTaskSet(k)
    \/ \E s \in 1..MaxSessions : ChildExit(s)
    \/ \E w \in Waits, t \in TaskIDs : WaitTask(w, t)
    \/ \E w \in Waits : \/ WaitExec(w)
                        \/ WaitExecCancelled(w)
                        \/ WaitTimeout(w)
                        \/ WaitDeregister(w)
                        \/ WaitServe(w)
                        \/ WaitDone(w)
                        \/ WaitCtxCancel(w)
    \/ \E f \in Fingerprints : \/ Fingerprint(f)
                               \/ FingerprintTick(f)
                               \/ FingerprintSend(f)
                               \/ FingerprintDone(f)
                               \/ FingerprintCtxCancel(f)
    \/ Shutdown

\* The goroutines take the steps they can take: a return of exec.Wait, the
\* timer of the select, the send to the deregister queue, the timer of the
\* fingerprint loop; a select whose Done case stays ready takes it in the
\* end. The child's exit, the callers' receives and cancellations are the
\* environment's.
FairShutdown ==
    /\ \A w \in Waits :
         /\ WF_vars(WaitExec(w))
         /\ WF_vars(WaitExecCancelled(w))
         /\ WF_vars(WaitTimeout(w))
         /\ WF_vars(WaitDeregister(w))
         /\ SF_vars(WaitDone(w))
    /\ \A f \in Fingerprints :
         /\ WF_vars(FingerprintTick(f))
         /\ SF_vars(FingerprintDone(f))

SpecShutdown == Init /\ [][NextShutdown]_vars /\ FairShutdown

\* No handleFingerprint and no handleWait goroutine is running.
LoopsEnded ==
    /\ \A w \in Waits : waits[w].pc \in {"idle", "closed"}
    /\ \A f \in Fingerprints : fps[f].pc \in {"idle", "closed"}

\* C22: once d.ctx is cancelled, the fingerprint loops and the wait loops
\* that are running end and close their channels; and the step that
\* cancels d.ctx changes no session and no entry of the registry.
C22_ShutdownEndsLoops ==
    /\ [](ctxDone => <>LoopsEnded)
    /\ [][ctxDone' # ctxDone => UNCHANGED <<sess, tasks>>]_vars

\* ---- StopTask and the executor
\* The executor plugin of a session exits by itself (pluginClient.Exited
\* is true from then on).
ExecutorExit(s) ==
    /\ s \in 1..Len(sess)
    /\ sess[s].st \in {"running", "exited"}
    /\ sess' = [sess EXCEPT ![s].st = "killed"]
    /\ UNCHANGED <<tasks, oomChan, calls, started, waits, err>>
    /\ UNCHANGED <<listenerVars, recovered, netVars, given, computed,
                   runVars>>

NextStop ==
    \/ \E t \in TaskIDs : StartTask(1, t)
    \/ StartTaskRegister(1)
    \/ StartTaskPrepare(1)
    \/ StartTaskDescribe(1)
    \/ StartTaskSet(1)
    \/ \E s \in 1..MaxSessions : ChildExit(s) \/ ExecutorExit(s)
    \/ \E t \in TaskIDs : StopTask(t)

SpecStop == Init /\ [][NextStop]_vars

\* C23: a StopTask call on a tracked task whose exec.Shutdown fails returns
\* no error when the executor has exited and an error when it has not, and
\* no StopTask call changes the registry.
C23_StopTaskToleratesExitedSession ==
    [][\A t \in TaskIDs, shutdownOk \in BOOLEAN, ps \in ExitStates :
         (StopTaskCall(t, shutdownOk, ps) /\ tasks[t] # NoTask) =>
            /\ tasks' = tasks
            /\ ShutdownFails(tasks[t], shutdownOk) =>
                  err' = IF sess[tasks[t]].st = "killed" THEN "nil"
                         ELSE "error"]_vars

\* C23's case: StopTask has returned an error for a task of the registry
\* whose exec.Shutdown failed while its executor was there, and the task is
\* still in the registry.
C23_Witness ==
    \E t \in TaskIDs :
        /\ tasks[t] # NoTask
        /\ sess[tasks[t]].st = "running"
        /\ err = "error"

\* ---------------------------------------------------------------------
\* The command ExecTask and ExecTaskStreamingRaw hand to the executor.

\* The tasks the exec operations are called on: the machine's name and
\* leader PID (as strconv.FormatInt prints it) and the variables found in
\* /proc/<leader>/environ.
ExecHandles ==
    [Name : {"web-u1", "db-u2"}, Leader : {"100", "200"},
     Environ : {EmptyMap, [k \in {"PATH"} |-> "/bin"],
                [k \in {"HOME", "PATH"} |->
                    IF k = "HOME" THEN "/root" ELSE "/bin"]}]

\* The commands requested, an argument being the sequence of its pieces.
ExecCommands ==
    {<<>>, <<<<"ls">>>>, <<<<"sh">>, <<"-c">>, <<"ls">>>>,
     <<<<"ls">>, <<"-c">>>>}

ExecOperations == {"ExecTask", "ExecTaskStreamingRaw"}

\* cmd := []string{"nsenter", "--target", leader, "--all", "/bin/env",
\* "-i", "-"}
NsEnter(leader) ==
    <<<<"nsenter">>, <<"--target">>, <<leader>>, <<"--all">>, <<"/bin/env">>,
      <<"-i">>, <<"-">>>>

\* for name, value := range readEnviron(leader) { cmd = append(cmd,
\* name+"="+value) }, the map walked in the order o.
RECURSIVE RangeEnviron(_, _)
RangeEnviron(map, o) ==
    IF o = <<>> THEN <<>>
    ELSE <<<<Head(o), "=", map[Head(o)]>>>> \o RangeEnviron(map, Tail(o))

\* The command ExecTaskStreamingRaw passes to exec.ExecStreaming.
ExecStreamingCommand(h, o, command) ==
    NsEnter(h.Leader) \o RangeEnviron(h.Environ, o) \o command

\* command := []string{"systemd-run", "--wait", "--service-type=exec",
\* "--collect", "--quiet", "--machine", handle.machine.Name, "--pipe"}
SystemdRun(name) ==
    <<<<"systemd-run">>, <<"--wait">>, <<"--service-type=exec">>,
      <<"--collect">>, <<"--quiet">>, <<"--machine">>, <<name>>,
      <<"--pipe">>>>

\* The command ExecTask passes to exec.Exec (command[0], command[1:]).
ExecTaskCommand(h, cmd) == SystemdRun(h.Name) \o cmd

\* What an exec operation on a task of the registry does with the command:
\* the error it returns and the command it forwards.
Forwarded(op, h, o, command) ==
    IF command = <<>> THEN [err |-> "error", cmd |-> <<>>]
    ELSE IF op = "ExecTaskStreamingRaw"
         THEN [err |-> "nil", cmd |-> ExecStreamingCommand(h, o, command)]
         ELSE [err |-> "nil", cmd |-> ExecTaskCommand(h, command)]

InitExec ==
    /\ InitProgram
    /\ given \in [op : ExecOperations, h : ExecHandles,
                  command : ExecCommands]
    /\ computed = [done |-> FALSE]

ApplyExec ==
    /\ ~computed.done
    /\ \E o \in RangeOrders(given.h.Environ) :
         computed' =
            [done |-> TRUE,
             value |-> Forwarded(given.op, given.h, o, given.command)]
    /\ UNCHANGED <<given, listenerVars, driverVars, recovered, netVars>>
    /\ UNCHANGED runVars

SpecExec == InitExec /\ [][ApplyExec]_vars

\* C24: the command either exec operation forwards is the namespace-entry
\* wrapper on the leader PID, then the variables of the leader's
\* environment, then the requested command unchanged and in order.
C24_ExecForwardsWrappedCommand ==
    (computed.done /\ computed.value.err = "nil") =>
        \E o \in RangeOrders(given.h.Environ) :
            computed.value.cmd =
                NsEnter(given.h.Leader)
                \o RangeEnviron(given.h.Environ, o)
                \o given.command

\* ---------------------------------------------------------------------
\* Tasks are started and recovered, their children exit and their wait
\* loops run.
NextRecoverWait ==
    \/ \E t \in TaskIDs : StartTask(1, t)
    \/ StartTaskRegister(1)
    \/ StartTaskPrepare(1)
    \/ StartTaskDescribe(1)
    \/ StartTaskSet(1)
    \/ \E h \in TaskIDs \cup {NilHandle} : RecoverTask(h)
    \/ \E s \in 1..MaxSessions : ChildExit(s)
    \/ \E w \in Waits, t \in TaskIDs : WaitTask(w, t)
    \/ \E w \in Waits : WaitExec(w)
    \/ \E w \in Waits : WaitTimeout(w)
    \/ \E w \in Waits : WaitDeregister(w)

SpecRecoverWait == Init /\ [][NextRecoverWait]_vars

\* C25: a wait loop that is at its select, waiting for an OOM event, waits
\* on a channel that a Register call for the machine of its task has
\* returned, be the task's handle made by StartTask or by RecoverTask.
C25_WaitLoopHasOwnRegistration ==
    \A w \in Waits :
        waits[w].pc = "select" =>
            /\ waits[w].c # NoChan
            /\ chanId[waits[w].c] = WaitMachine(w)

\* C26: the registration of a task's machine is removed once, by the
\* listener when it delivers an OOM event or by the Deregister call of the
\* wait loop, never by both: a wait loop that has received the event of
\* its machine makes no Deregister call.
C26_RemovalExactlyOnce ==
    [][\A w \in Waits :
         WaitDeregister(w) => waits[w].got # WaitMachine(w)]_vars

\* C27: once StartTask has returned an error for a task that is not in the
\* registry and that no other StartTask call is working on, the listener's
\* map holds no registration for the machine of that task.
C27_FailedStartLeavesNoRegistration ==
    (/\ started.err \notin {"nil", "exists"}
     /\ started.task # NoTask
     /\ tasks[started.task] = NoTask
     /\ \A k \in Starts :
            calls[k].pc \in {"idle", "done"} \/ calls[k].task # started.task)
    => ids[MachineOf(started.task)] = NoChan

\* C28: a Deregister call changes no registration and delivers nothing by
\* itself, and the loop's handling of a deregistration leaves every other
\* machine's registration as it is, delivers nothing and returns to the
\* select; for a machine that has no registration it changes nothing.
C28_DeregisterSafe ==
    [][/\ \A m \in Machines :
            ClientDeregister(m) =>
                /\ ids' = ids
                /\ delivered' = delivered
                /\ loopPc' = loopPc
       /\ LoopDeregister =>
            /\ \A n \in Machines :
                   n # Head(deregister) => ids'[n] = ids[n]
            /\ ids[Head(deregister)] = NoChan => ids' = ids
            /\ delivered' = delivered
            /\ loopPc' = "select"]_vars

\* C28's case: the one Deregister call made has been handled by the loop
\* while its machine had no registration (the only Register call made was
\* for a machine that is still registered).
C28_Witness ==
    /\ nDeregs = 1
    /\ deregister = <<>>
    /\ Len(chanId) = 1
    /\ ids[chanId[1]] = 1

\* ---------------------------------------------------------------------
\* parseLine on the lines of the kernel log.

\* A line is the sequence of the fields strings.Split(line, ",") cuts it
\* into. A field is what precedes its key (the marker the line starts
\* with, on the first field), the key, whether a "=" follows, and the
\* pieces of what follows the "=".
Field(pre, key, eq, value) ==
    [pre |-> pre, key |-> key, eq |-> eq, value |-> value]

OomKill == "oom-kill:"

FirstFields ==
    {Field(OomKill, "constraint", TRUE, <<"CONSTRAINT_MEMCG">>),
     Field(OomKill, "", FALSE, <<>>),
     Field("Memory cgroup out of memory:", " Killed process 980", FALSE, <<>>),
     Field("oom_reaper:", " reaped process 980", FALSE, <<>>),
     Field("", "usb 1-1: new device", FALSE, <<>>)}

MachineScope == <<"/machine.slice/machine-", "web", "\\x2d", "u1", ".scope">>
UserScope == <<"/user.slice/user-", "1000", ".slice">>

LaterFields ==
    {Field("", "oom_memcg", TRUE, MachineScope),
     Field("", "oom_memcg", TRUE, UserScope),
     Field("", "pid", TRUE, <<"980">>),
     Field("", "pid", TRUE, <<"abc">>),
     Field("", "pid", FALSE, <<>>),
     Field("", "task", TRUE, <<"bash">>),
     Field("", "nodemask", FALSE, <<>>)}

\* Fields that follow the first one, at most.
MaxFields == 2

Lines ==
    {<<f>> \o rest :
        f \in FirstFields,
        rest \in UNION {[1..n -> LaterFields] : n \in 0..MaxFields}}

\* strings.Replace(parts[1], "\\x2d", "-", -1)
Replace(scope) ==
    [i \in 1..Len(scope) |-> IF scope[i] = "\\x2d" THEN "-" ELSE scope[i]]

\* FindStringSubmatch of ^/machine\.slice/machine-(.+)\.scope$: the whole
\* match and the group, or nothing.
FindStringSubmatch(scope) ==
    IF /\ Len(scope) >= 3
       /\ scope[1] = "/machine.slice/machine-"
       /\ scope[Len(scope)] = ".scope"
    THEN <<scope, SubSeq(scope, 2, Len(scope) - 1)>>
    ELSE <<>>

\* strconv.ParseUint(parts[1], 10, 64): the number, 0 with an error.
ParseUint(value) == IF value = <<"980">> THEN 980 ELSE 0

\* The event parseLine is filling in, and whether it has panicked.
NoEvent == [PID |-> 0, Task |-> <<>>, MachineID |-> <<>>]
Parsing(event, panic) == [event |-> event, panic |-> panic]

\* parts[0] of a field.
Key(f) == <<f.pre, f.key>>

\* One turn of parseLine's loop over the fields. A field without "=" is
\* logged and goes on to the switch, where parts[1] is out of range for a
\* key the switch knows; a scope without a match is logged and match[1] is
\* out of range.
ParseField(p, f) ==
    IF p.panic THEN p
    ELSE IF Key(f) \notin {<<"", "oom_memcg">>, <<"", "pid">>, <<"", "task">>}
    THEN p
    ELSE IF ~f.eq THEN Parsing(p.event, TRUE)
    ELSE IF f.key = "oom_memcg"
    THEN IF FindStringSubmatch(Replace(f.value)) = <<>>
         THEN Parsing(p.event, TRUE)
         ELSE Parsing([p.event EXCEPT !.MachineID =
                          FindStringSubmatch(Replace(f.value))[2]], FALSE)
    ELSE IF f.key = "pid"
    THEN Parsing([p.event EXCEPT !.PID = ParseUint(f.value)], FALSE)
    ELSE Parsing([p.event EXCEPT !.Task = f.value], FALSE)

RECURSIVE ParseFields(_, _)
ParseFields(p, fields) ==
    IF fields = <<>> THEN p
    ELSE ParseFields(ParseField(p, Head(fields)), Tail(fields))

\* parseLine(line): whether it panics and the events it sends on self.oom.
parseLine(line) ==
    IF line[1].pre = OomKill
    THEN LET p == ParseFields(Parsing(NoEvent, FALSE), line) IN
         IF p.panic THEN [panic |-> TRUE, sent |-> <<>>]
         ELSE [panic |-> FALSE, sent |-> <<p.event>>]
    ELSE [panic |-> FALSE, sent |-> <<>>]

InitParse ==
    /\ InitProgram
    /\ given \in Lines
    /\ computed = [done |-> FALSE]

\* journalctlListener hands the message of a line to parseLine.
ApplyParseLine ==
    /\ ~computed.done
    /\ computed' = [done |-> TRUE, value |-> parseLine(given)]
    /\ UNCHANGED <<given, listenerVars, driverVars, recovered, netVars>>
    /\ UNCHANGED runVars

SpecParse == InitParse /\ [][ApplyParseLine]_vars

\* A line that does not start with the out-of-memory marker.
Irrelevant(line) == line[1].pre # OomKill

\* An out-of-memory line with a scope that is not machine-<id>.scope or
\* with a field that has no "=".
Unparseable(line) ==
    /\ line[1].pre = OomKill
    /\ \E i \in 1..Len(line) :
          \/ ~line[i].eq
          \/ /\ Key(line[i]) = <<"", "oom_memcg">>
             /\ FindStringSubmatch(Replace(line[i].value)) = <<>>

\* C29: parseLine on an irrelevant or unparseable line sends no OOM event
\* and does not panic, so that the listener and the log tailer go on.
C29_BadLineIgnored ==
    (computed.done /\ (Irrelevant(given) \/ Unparseable(given))) =>
        /\ ~computed.value.panic
        /\ computed.value.sent = <<>>

\* ---------------------------------------------------------------------
\* OOMListener.Start and its log-tailing sessions.

\* Start calls journalctlListener: cmd.StdoutPipe fails (panic) or the
\* reader and the subprocess are started and the lines are ranged over.
TailStart ==
    /\ tail.pc = "idle"
    /\ \E pipeOk \in BOOLEAN :
         tail' = [tail EXCEPT !.pc = IF pipeOk THEN "tailing" ELSE "panicked"]
    /\ UNCHANGED <<ctxDone, fps, waitCtx>>
    /\ UNCHANGED <<listenerVars, driverVars, recovered, netVars, given,
                   computed>>

\* The reader decodes the oom-kill line of machine m, from the kernel, and
\* parseLine queues its event.
TailLine(m) ==
    /\ tail.pc = "tailing"
    /\ ParseLine(m)

\* The reader decodes a line from the kernel on which parseLine panics.
TailBadLine ==
    /\ tail.pc = "tailing"
    /\ \E line \in Lines : parseLine(line).panic
    /\ tail' = [tail EXCEPT !.pc = "panicked"]
    /\ UNCHANGED <<ctxDone, fps, waitCtx>>
    /\ UNCHANGED <<listenerVars, driverVars, recovered, netVars, given,
                   computed>>

\* dec.Decode returns io.EOF (the subprocess is over and its output read):
\* the reader closes the channel, the range ends and journalctlListener
\* returns to Start's loop.
TailEOF ==
    /\ tail.pc = "tailing"
    /\ tail' = [tail EXCEPT !.pc = "idle"]
    /\ UNCHANGED <<ctxDone, fps, waitCtx>>
    /\ UNCHANGED <<listenerVars, driverVars, recovered, netVars, given,
                   computed>>

\* dec.Decode returns another error (text that is no JSON, a read error of
\* the pipe): panic(err) in the reader.
TailDecodeError ==
    /\ tail.pc = "tailing"
    /\ tail' = [tail EXCEPT !.pc = "panicked"]
    /\ UNCHANGED <<ctxDone, fps, waitCtx>>
    /\ UNCHANGED <<listenerVars, driverVars, recovered, netVars, given,
                   computed>>

\* The listener with its clients and its log tailer.
NextTail ==
    \/ TailStart
    \/ \E m \in Machines : TailLine(m)
    \/ TailBadLine
    \/ TailEOF
    \/ TailDecodeError
    \/ \E m \in Machines : ClientRegister(m)
    \/ \E m \in Machines : ClientDeregister(m)
    \/ LoopRegister
    \/ LoopDeregister
    \/ LoopOOM
    \/ \E c \in Chans : ClientReceive(c)

\* Start's loop is a goroutine of its own that calls journalctlListener
\* again as soon as it has returned.
FairTail == WF_vars(TailStart)

SpecTail == Init /\ [][NextTail]_vars /\ FairTail

\* C30: whenever the listener has no log-tailing session, one is started
\* later on, and the process is never ended by a panic of the tailer.
C30_TailingRestarts ==
    /\ [](tail.pc # "tailing" => <>(tail.pc = "tailing"))
    /\ [](tail.pc # "panicked")

\* ---------------------------------------------------------------------
\* DescribeMachine and MachineAddresses: the polling of systemd-machined.

\* The timeout, in sleeps of 10 ms, at most.
MaxTimeout == 4

Queries == {"DescribeMachine", "MachineAddresses"}

\* What one call to machined can come to: the answer wanted, an error of
\* the call, or (GetMachineAddresses only) an answer without an address
\* that is IPv4 and not link-local.
CallOutcomes(query) ==
    IF query = "DescribeMachine" THEN {"ok", "error"}
    ELSE {"ok", "error", "no address"}

\* What the function does after a call with outcome o: return (and what),
\* or sleep and go round the loop again.
AfterCall(query, o) ==
    IF o = "ok" THEN [pc |-> "returned", ret |-> "nil"]
    ELSE IF query = "MachineAddresses" /\ o = "error"
    THEN [pc |-> "returned", ret |-> "failed to call dbus"]
    ELSE [pc |-> "sleep", ret |-> ""]

InitQuery ==
    /\ InitProgram
    /\ given \in [query : Queries, timeout : 1..MaxTimeout]
    /\ computed = [done |-> FALSE, pc |-> "connect", elapsed |-> 0,
                   calls |-> 0, last |-> "", ret |-> ""]

\* The connection is there or is made; a failure to make it is returned.
QueryConnect ==
    /\ computed.pc = "connect"
    /\ \E ok \in BOOLEAN :
         computed' = IF ok THEN [computed EXCEPT !.pc = "select"]
                     ELSE [computed EXCEPT !.pc = "returned", !.done = TRUE,
                                           !.ret = "failed to connect"]
    /\ UNCHANGED <<given, listenerVars, driverVars, recovered, netVars>>
    /\ UNCHANGED runVars

\* select: case <-ctx.Done() returns the time-out error, default goes on
\* to the call.
QuerySelect ==
    /\ computed.pc = "select"
    /\ computed' = IF computed.elapsed >= given.timeout
                   THEN [computed EXCEPT !.pc = "returned", !.done = TRUE,
                                         !.ret = "timed out"]
                   ELSE [computed EXCEPT !.pc = "call"]
    /\ UNCHANGED <<given, listenerVars, driverVars, recovered, netVars>>
    /\ UNCHANGED runVars

\* The call to machined and what the function makes of its outcome.
QueryCall ==
    /\ computed.pc = "call"
    /\ \E o \in CallOutcomes(given.query) :
         computed' = [computed EXCEPT
                         !.pc = AfterCall(given.query, o).pc,
                         !.ret = AfterCall(given.query, o).ret,
                         !.done = AfterCall(given.query, o).pc = "returned",
                         !.calls = IF @ < MaxTimeout THEN @ + 1 ELSE @,
                         !.last = o]
    /\ UNCHANGED <<given, listenerVars, driverVars, recovered, netVars>>
    /\ UNCHANGED runVars

\* time.Sleep(10 * time.Millisecond)
QuerySleep ==
    /\ computed.pc = "sleep"
    /\ computed' = [computed EXCEPT !.pc = "select", !.elapsed = @ + 1]
    /\ UNCHANGED <<given, listenerVars, driverVars, recovered, netVars>>
    /\ UNCHANGED runVars

NextQuery == QueryConnect \/ QuerySelect \/ QueryCall \/ QuerySleep

\* The goroutine of the caller runs on, and the calls to machined return.
FairQuery == WF_vars(NextQuery)

SpecQuery == InitQuery /\ [][NextQuery]_vars /\ FairQuery

\* C31: either query returns in the end; a call that did not give the
\* answer is followed by the sleep and another turn of the loop; and a
\* query that connected and got the answer from no call returns the
\* time-out error.
C31_QueryRetriesUntilTimeout ==
    /\ <>(computed.pc = "returned")
    /\ [][(computed.pc = "call" /\ computed'.last # "ok")
             => computed'.pc = "sleep"]_vars
    /\ [](computed.pc = "returned" /\ computed.calls > 0
          /\ computed.last # "ok" => computed.ret = "timed out")

\* ---------------------------------------------------------------------
\* ConfigureIPTablesRules on the FORWARD chain of the filter table.

\* The interfaces of the host's containers and the lists the function is
\* called with.
IfNames == {"ve-web", "ve-db"}
IfLists ==
    {<<>>} \cup {<<i>> : i \in IfNames} \cup {<<i, j>> : i, j \in IfNames}

\* The three rules of an interface, in the order of the code.
RuleKinds == <<"established", "outbound", "internal">>
ChainRules == IfNames \X {RuleKinds[k] : k \in 1..Len(RuleKinds)}

\* The rules of the call, in the order they are gone through.
RECURSIVE RulesOf(_)
RulesOf(interfaces) ==
    IF interfaces = <<>> THEN <<>>
    ELSE [k \in 1..Len(RuleKinds) |-> <<Head(interfaces), RuleKinds[k]>>]
         \o RulesOf(Tail(interfaces))

\* The chains the function finds: how often each rule is in the chain.
Chains == [ChainRules -> 0..1]

\* table.Exists("filter", "FORWARD", r...)
ExistsNever(table, rule) == FALSE
Exists(table, rule) == table[rule] > 0

\* One turn of the loop over the rules, unless an earlier turn has
\* returned: the invocation of iptables fails (fail), or the rule is not
\* there and is appended, or it is there and deleted when delete is set.
ConfigureRule(delete, st, rule, fail) ==
    IF st.err # "nil" THEN st
    ELSE IF fail THEN [st EXCEPT !.err = "error"]
    ELSE IF ~Exists(st.table, rule)
    THEN [st EXCEPT !.table[rule] = @ + 1, !.appended = @ + 1]
    ELSE IF delete
    THEN [st EXCEPT !.table[rule] = @ - 1, !.deleted = @ + 1]
    ELSE st

\* The turns from the i-th rule on; the failAt-th one fails (0: none).
RECURSIVE ConfigureRules(_, _, _, _, _)
ConfigureRules(delete, st, rules, i, failAt) ==
    IF i > Len(rules) THEN st
    ELSE ConfigureRules(delete,
                        ConfigureRule(delete, st, rules[i], i = failAt),
                        rules, i + 1, failAt)

\* ConfigureIPTablesRules(delete, interfaces) on the chain `table`: the
\* error, the chain it leaves, and the rules it appended and deleted.
ConfigureIPTablesRules(delete, interfaces, table, failAt) ==
    IF Len(interfaces) = 0
    THEN [err |-> "no network interfaces configured", table |-> table,
          appended |-> 0, deleted |-> 0]
    ELSE ConfigureRules(delete,
                        [err |-> "nil", table |-> table, appended |-> 0,
                         deleted |-> 0],
                        RulesOf(interfaces), 1, failAt)

\* Calls of the function on one chain, at most.
MaxCalls == 2

InitIPTables ==
    /\ InitProgram
    /\ given \in [delete : BOOLEAN, interfaces : IfLists]
    /\ \E table \in Chains :
         computed = [done |-> FALSE, n |-> 0, before |-> table,
                     prev |-> "nil",
                     value |-> [err |-> "nil", table |-> table,
                                appended |-> 0, deleted |-> 0]]

\* The function is called on the chain the last call has left (before),
\* after what that call returned (prev).
ApplyConfigureIPTablesRules ==
    /\ computed.n < MaxCalls
    /\ \E failAt \in 0..Len(RulesOf(given.interfaces)) :
         computed' =
            [done |-> TRUE, n |-> computed.n + 1,
             before |-> computed.value.table,
             prev |-> computed.value.err,
             value |-> ConfigureIPTablesRules(given.delete, given.interfaces,
                                              computed.value.table, failAt)]
    /\ UNCHANGED <<given, listenerVars, driverVars, recovered, netVars>>
    /\ UNCHANGED runVars

SpecIPTables == InitIPTables /\ [][ApplyConfigureIPTablesRules]_vars

\* Whether rule r is one of the call's interfaces.
Given(rule) ==
    \E i \in 1..Len(given.interfaces) : given.interfaces[i] = rule[1]

\* C32: after a call with add intent that has returned no error, each of
\* the three rules of every given interface is in the chain once and the
\* other rules are as they were; a second such call appends and deletes
\* nothing and leaves the chain as the first one left it.
C32_AddIsIdempotent ==
    (computed.done /\ ~given.delete /\ given.interfaces # <<>>
     /\ computed.value.err = "nil") =>
        /\ \A r \in ChainRules :
              computed.value.table[r] =
                  IF Given(r) THEN 1 ELSE computed.before[r]
        /\ computed.value.deleted = 0
        /\ (computed.n > 1 /\ computed.prev = "nil") =>
              /\ computed.value.appended = 0
              /\ computed.value.table = computed.before

\* C32's case: a second call with add intent for two interfaces has
\* returned no error and every rule of theirs is in the chain once.
C32_Witness ==
    /\ computed.n = 2
    /\ computed.prev = "nil"
    /\ ~given.delete
    /\ Len(given.interfaces) = 2
    /\ computed.value.err = "nil"
    /\ \A r \in ChainRules : computed.value.table[r] = 1

\* C38: after a call with remove intent that has returned no error, none
\* of the three rules of any given interface is in the chain, and the call
\* has appended no rule.
C38_RemoveNeverInserts ==
    (computed.done /\ given.delete /\ computed.value.err = "nil") =>
        /\ computed.value.appended = 0
        /\ \A r \in ChainRules : Given(r) => computed.value.table[r] = 0

\* ---------------------------------------------------------------------
\* prepareNixOS and prepareNixPackages: what the image resolution writes to
\* the configuration.

\* What the build tool hands back: the closure-info path, the build target
\* (the system's toplevel or the profile), the names os.ReadDir finds in
\* the profile and in its etc, and the records nix path-info --recursive
\* prints for the closure path: the paths of its closure, each once, the
\* path itself among them, in the order of the tool.
ClosurePath == "/nix/store/closure"
BuildTarget == "/nix/store/target"
Glibc == "/nix/store/glibc"
PathInfos ==
    {<<ClosurePath>>, <<ClosurePath, BuildTarget>>, <<BuildTarget, ClosurePath>>,
     <<ClosurePath, BuildTarget, Glibc>>, <<Glibc, BuildTarget, ClosurePath>>}
ToolOutputs ==
    [entries : {{"bin"}, {"bin", "etc"}, {"bin", "usr"}},
     etcEntries : {{"passwd", "resolv.conf"}},
     pathInfo : PathInfos]

\* The configuration the image resolution starts from: the read-only binds
\* of the task's mounts, its command and its environment.
ImageConfigs ==
    [BindReadOnly : {EmptyMap, [k \in {"/host/bin"} |-> "/usr/bin"],
                     [k \in {"/host/usr"} |-> "/usr"],
                     [k \in {"/host/data"} |-> "/data"]},
     Command : {<<>>, <<"/bin/sh">>},
     Environment : {EmptyMap, [k \in {"PATH"} |-> "/custom/bin"]}]

ImageModes == {"nixos", "packages"}
ImageFailures == {"nil", "build", "readdir", "requisites"}

\* nixRequisites: the Path of every record, in the order of the records.
nixRequisitesFirstOnly(pathInfo) == <<pathInfo[1]>>
nixRequisites(pathInfo) == [i \in 1..Len(pathInfo) |-> pathInfo[i]]

\* for _, requisite := range requisites { c.BindReadOnly[requisite] =
\* requisite }
RECURSIVE BindRequisites(_, _)
BindRequisites(binds, requisites) ==
    IF requisites = <<>> THEN binds
    ELSE BindRequisites(Put(binds, Head(requisites), Head(requisites)),
                        Tail(requisites))

\* The strings guestDir for which strings.HasPrefix("/usr/", guestDir)
\* holds: the prefixes of "/usr/".
PrefixesOfUsr == {"", "/", "/u", "/us", "/usr", "/usr/"}

\* createUsr: whether the usr directory is made in c.Directory.
createUsr(binds) ==
    ~\E hostDir \in DOMAIN binds : binds[hostDir] \in PrefixesOfUsr

\* What a prepare function returns: the error and the configuration, with
\* whether createUsr was reached (ran) and made the directory (usr).
Prepared(e, binds, command, environment, ran, usr) ==
    [err |-> e, BindReadOnly |-> binds, Command |-> command,
     Environment |-> environment, ran |-> ran, usr |-> usr]

\* prepareNixOS; step `fail` fails ("nil": none).
prepareNixOS(c, out, fail) ==
    IF fail = "build"
    THEN Prepared(fail, c.BindReadOnly, c.Command, c.Environment, FALSE,
                  FALSE)
    ELSE LET b1 == Put(Put(Put(Put(c.BindReadOnly, BuildTarget, BuildTarget),
                               ClosurePath \o "/registration", "/registration"),
                           BuildTarget \o "/init", "/init"),
                       BuildTarget \o "/sw", "/sw")
         IN IF fail = "requisites"
            THEN Prepared(fail, b1, c.Command, c.Environment, FALSE, FALSE)
            ELSE LET b2 == BindRequisites(b1, nixRequisites(out.pathInfo))
                 IN Prepared("nil", b2,
                             IF Len(c.Command) = 0 THEN <<"/init">>
                             ELSE c.Command,
                             c.Environment, TRUE, createUsr(b2))

\* The binds of the profile's entries: each entry at /<name>, the entries
\* of etc at /etc/<name>, resolv.conf left out.
BindEntries(binds, out) ==
    [k \in DOMAIN binds
        \cup {BuildTarget \o "/" \o n : n \in out.entries \ {"etc"}}
        \cup (IF "etc" \in out.entries
              THEN {BuildTarget \o "/etc/" \o n :
                       n \in out.etcEntries \ {"resolv.conf"}}
              ELSE {}) |->
        IF \E n \in out.entries \ {"etc"} : k = BuildTarget \o "/" \o n
        THEN "/" \o (CHOOSE n \in out.entries : k = BuildTarget \o "/" \o n)
        ELSE IF /\ "etc" \in out.entries
                /\ \E n \in out.etcEntries : k = BuildTarget \o "/etc/" \o n
        THEN "/etc/" \o
             (CHOOSE n \in out.etcEntries : k = BuildTarget \o "/etc/" \o n)
        ELSE binds[k]]

\* prepareNixPackages; step `fail` fails ("nil": none).
prepareNixPackages(c, out, fail) ==
    IF fail = "build"
    THEN Prepared(fail, c.BindReadOnly, c.Command, c.Environment, FALSE,
                  FALSE)
    ELSE LET b1 == Put(c.BindReadOnly, BuildTarget, BuildTarget)
         IN IF fail = "readdir"
            THEN Prepared(fail, b1, c.Command, c.Environment, FALSE, FALSE)
            ELSE LET b2 == Put(BindEntries(b1, out),
                               ClosurePath \o "/registration", "/registration")
                 IN IF fail = "requisites"
                    THEN Prepared(fail, b2, c.Command, c.Environment, FALSE,
                                  FALSE)
                    ELSE LET b3 == BindRequisites(b2,
                                       nixRequisites(out.pathInfo))
                         IN Prepared("nil", b3, c.Command,
                                     IF "PATH" \in DOMAIN c.Environment
                                     THEN c.Environment
                                     ELSE Put(c.Environment, "PATH", "/bin"),
                                     TRUE, createUsr(b3))

\* StartTask's image resolution in the mode of the task.
ResolveImage(mode, c, out, fail) ==
    IF mode = "nixos" THEN prepareNixOS(c, out, fail)
    ELSE prepareNixPackages(c, out, fail)

InitImage ==
    /\ InitProgram
    /\ given \in [mode : ImageModes, c : ImageConfigs, out : ToolOutputs]
    /\ computed = [done |-> FALSE]

ApplyResolveImage ==
    /\ ~computed.done
    /\ \E fail \in ImageFailures :
         computed' = [done |-> TRUE,
                      value |-> ResolveImage(given.mode, given.c, given.out,
                                             fail)]
    /\ UNCHANGED <<given, listenerVars, driverVars, recovered, netVars>>
    /\ UNCHANGED runVars

SpecImage == InitImage /\ [][ApplyResolveImage]_vars

\* The image resolution has returned without an error.
Resolved == computed.done /\ computed.value.err = "nil"

UnderUsr == {"/usr", "/usr/", "/usr/bin"}

\* C34: after the image resolution in either mode the usr directory has
\* been made exactly when no read-only bind has its target in the
\* container at or under /usr.
C34_UsrCreatedWhenNotProvided ==
    Resolved =>
        (computed.value.usr <=>
            ~\E k \in DOMAIN computed.value.BindReadOnly :
                computed.value.BindReadOnly[k] \in UnderUsr)

\* C35: after the image resolution in either mode the command is not
\* empty and is the task's when it declared one, and the environment has
\* PATH, with the task's value when it set one.
C35_CommandAndPathDefaulted ==
    Resolved =>
        /\ computed.value.Command # <<>>
        /\ given.c.Command # <<>> => computed.value.Command = given.c.Command
        /\ "PATH" \in DOMAIN computed.value.Environment
        /\ \A k \in DOMAIN given.c.Environment :
              /\ k \in DOMAIN computed.value.Environment
              /\ computed.value.Environment[k] = given.c.Environment[k]

\* ---------------------------------------------------------------------
\* The listener's loop with the wait loops as its only receivers.

\* One StartTask call, the task's child, its wait loop, the kernel log and
\* the listener's loop.
NextLoop ==
    \/ \E t \in TaskIDs : StartTask(1, t)
    \/ StartTaskRegister(1)
    \/ StartTaskPrepare(1)
    \/ StartTaskDescribe(1)
    \/ StartTaskSet(1)
    \/ \E s \in 1..MaxSessions : ChildExit(s)
    \/ \E w \in Waits, t \in TaskIDs : WaitTask(w, t)
    \/ \E w \in Waits : WaitExec(w)
    \/ \E w \in Waits : WaitTimeout(w)
    \/ \E w \in Waits : WaitOOM(w)
    \/ \E w \in Waits : WaitDeregister(w)
    \/ \E m \in Machines : KernelOOM(m)
    \/ LoopRegister
    \/ LoopDeregister
    \/ LoopOOM

\* The loop and the wait loops are goroutines that run on when they can:
\* a select with a ready case takes one, a timer that was set fires, and a
\* send that meets a receiver is completed.
FairLoop ==
    /\ WF_vars(LoopRegister \/ LoopDeregister \/ LoopOOM)
    /\ \A w \in Waits :
          /\ WF_vars(WaitExec(w))
          /\ WF_vars(WaitTimeout(w) \/ WaitOOM(w))
          /\ WF_vars(WaitDeregister(w))

SpecLoop == Init /\ [][NextLoop]_vars /\ FairLoop

\* C36: whenever the loop has taken an OOM event of a registered machine
\* and is sending it on the registration's channel, it is later back at
\* its select.
C36_LoopNeverBlocks == [](loopPc = "send" => <>(loopPc = "select"))

\* ---------------------------------------------------------------------
\* StartTask calls that run at the same time.
NextStarts ==
    \/ \E k \in Starts, t \in TaskIDs : StartTask(k, t)
    \/ \E k \in Starts : StartTaskRegister(k)
    \/ \E k \in Starts : StartTaskPrepare(k)
    \/ \E k \in Starts : StartTaskDescribe(k)
    \/ \E k \in Starts : StartTaskSet(k)
    \/ \E s \in 1..MaxSessions : ChildExit(s)

SpecStarts == Init /\ [][NextStarts]_vars

\* C37: the handle the registry holds for a task id is never replaced by
\* another one, and no task id has two sessions whose handle is run.
C37_ConcurrentStartsExclusive ==
    /\ [][\A t \in TaskIDs :
            tasks[t] # NoTask => tasks'[t] \in {tasks[t], NoTask}]_vars
    /\ [](\A s1, s2 \in 1..Len(sess) :
            (/\ sess[s1].task = sess[s2].task
             /\ sess[s1].procState # "none"
             /\ sess[s2].procState # "none") => s1 = s2)

\* ---------------------------------------------------------------------
\* DownloadImage: one transfer for each URL at a time.
MaxCallers == 3

Callers == 1..MaxCallers

URLs == {"u1", "u2"}

ImageTypes == {"tar", "raw", "zip"}

\* A variant in which every URL is given the same mutex.
MutexOfAny(url) == "u1"

\* l, ok := mutMap[url]: the mutex of a URL is the one stored under it.
MutexOf(url) == url

InitDownload ==
    /\ InitProgram
    /\ given \in [Callers -> URLs]
    /\ computed = [done |-> FALSE,
                   pc |-> [c \in Callers |-> "idle"],
                   ret |-> [c \in Callers |-> ""],
                   transferMut |-> 0,
                   mutMap |-> {},
                   locked |-> [m \in URLs |-> 0],
                   transfers |-> {}]

\* return, with the deferred l.Unlock() when the URL's mutex is held.
DownloadReturn(c, e, unlock) ==
    [computed EXCEPT
        !.pc[c] = "returned",
        !.ret[c] = e,
        !.locked[MutexOf(given[c])] = IF unlock THEN 0 ELSE @,
        !.done = \A d \in Callers \ {c} : computed.pc[d] = "returned"]

\* The call: the connection to importd and the test of the image type.
DownloadImage(c) ==
    /\ computed.pc[c] = "idle"
    /\ \E connected \in BOOLEAN, imageType \in ImageTypes :
         computed' =
            IF ~connected THEN DownloadReturn(c, "connect", FALSE)
            ELSE IF imageType \notin {"tar", "raw"}
            THEN DownloadReturn(c, "unsupported image type", FALSE)
            ELSE [computed EXCEPT !.pc[c] = "global"]
    /\ UNCHANGED <<given, listenerVars, driverVars, recovered, netVars>>
    /\ UNCHANGED runVars

\* transferMut.Lock()
DownloadGlobalLock(c) ==
    /\ computed.pc[c] = "global"
    /\ computed.transferMut = 0
    /\ computed' = [computed EXCEPT !.pc[c] = "section", !.transferMut = c]
    /\ UNCHANGED <<given, listenerVars, driverVars, recovered, netVars>>
    /\ UNCHANGED runVars

\* The URL's mutex is looked up, and made when there is none; then
\* transferMut.Unlock().
DownloadRemoteLookup(c) ==
    /\ computed.pc[c] = "section"
    /\ computed' = [computed EXCEPT
                       !.pc[c] = "remote",
                       !.mutMap = @ \cup {given[c]},
                       !.transferMut = 0]
    /\ UNCHANGED <<given, listenerVars, driverVars, recovered, netVars>>
    /\ UNCHANGED runVars

\* l.Lock()
DownloadRemoteLock(c) ==
    /\ computed.pc[c] = "remote"
    /\ computed.locked[MutexOf(given[c])] = 0
    /\ computed' = [computed EXCEPT !.pc[c] = "pull",
                                    !.locked[MutexOf(given[c])] = c]
    /\ UNCHANGED <<given, listenerVars, driverVars, recovered, netVars>>
    /\ UNCHANGED runVars

\* c.PullTar or c.PullRaw: importd starts the transfer, or refuses; it
\* refuses a URL of which it has a transfer in progress.
DownloadPull(c) ==
    /\ computed.pc[c] = "pull"
    /\ \E ok \in BOOLEAN :
         /\ ok => \A t \in computed.transfers : given[t] # given[c]
         /\ computed' =
               IF ok THEN [computed EXCEPT !.pc[c] = "poll",
                                           !.transfers = @ \cup {c}]
               ELSE DownloadReturn(c, "pull", TRUE)
    /\ UNCHANGED <<given, listenerVars, driverVars, recovered, netVars>>
    /\ UNCHANGED runVars

\* A tick on which ListTransfers has no transfer with t.Id: done.
DownloadPollGone(c) ==
    /\ computed.pc[c] = "poll"
    /\ c \notin computed.transfers
    /\ computed' = DownloadReturn(c, "nil", TRUE)
    /\ UNCHANGED <<given, listenerVars, driverVars, recovered, netVars>>
    /\ UNCHANGED runVars

\* A tick on which ListTransfers fails: its error is dropped and the
\* empty list ends the wait.
DownloadPollError(c) ==
    /\ computed.pc[c] = "poll"
    /\ c \in computed.transfers
    /\ computed' = DownloadReturn(c, "nil", TRUE)
    /\ UNCHANGED <<given, listenerVars, driverVars, recovered, netVars>>
    /\ UNCHANGED runVars

\* importd finishes a transfer.
TransferFinish(t) ==
    /\ t \in computed.transfers
    /\ computed' = [computed EXCEPT !.transfers = @ \ {t}]
    /\ UNCHANGED <<given, listenerVars, driverVars, recovered, netVars>>
    /\ UNCHANGED runVars

NextDownload ==
    \/ \E c \in Callers : DownloadImage(c)
    \/ \E c \in Callers : DownloadGlobalLock(c)
    \/ \E c \in Callers : DownloadRemoteLookup(c)
    \/ \E c \in Callers : DownloadRemoteLock(c)
    \/ \E c \in Callers : DownloadPull(c)
    \/ \E c \in Callers : DownloadPollGone(c)
    \/ \E c \in Callers : DownloadPollError(c)
    \/ \E t \in Callers : TransferFinish(t)

\* Every goroutine that can run does so, the ticker ticks, and the
\* transfers importd runs come to an end.
FairDownload ==
    /\ \A c \in Callers :
          /\ WF_vars(DownloadGlobalLock(c))
          /\ WF_vars(DownloadRemoteLookup(c))
          /\ WF_vars(DownloadRemoteLock(c))
          /\ WF_vars(DownloadPull(c))
          /\ WF_vars(DownloadPollGone(c))
    /\ \A t \in Callers : WF_vars(TransferFinish(t))

SpecDownload == InitDownload /\ [][NextDownload]_vars /\ FairDownload

\* The call is between its pull and the return that follows it.
Transferring(c) == computed.pc[c] \in {"pull", "poll"}

MaxWaiters == 2

Waiters == 1..MaxWaiters

\* The program after construction, with room for MaxWaiters wait loops.
InitWaiters ==
    /\ InitListener
    /\ tasks = [t \in TaskIDs |-> NoTask]
    /\ oomChan = NoChan
    /\ sess = <<>>
    /\ calls = [k \in Starts |-> NoCall]
    /\ started = Return(NoCall, "nil")
    /\ waits = [w \in Waiters |-> NoWait]
    /\ err = "nil"
    /\ recovered = Recovery(NoTask, "nil", 0)
    /\ net = [t \in TaskIDs |-> [tracked |-> FALSE, isolated |-> FALSE,
                                 netIF |-> <<>>]]
    /\ fw = {}
    /\ ctxDone = FALSE
    /\ fps = [f \in Fingerprints |-> [pc |-> "idle", ctx |-> FALSE]]
    /\ waitCtx = [w \in Waiters |-> FALSE]
    /\ tail = [pc |-> "idle"]
    /\ given = <<>>
    /\ computed = [done |-> FALSE]

\* One StartTask call, the task's child, the wait loops of the WaitTask
\* calls, the kernel log, the listener's loop and the cancellations.
NextWaiters ==
    \/ \E t \in TaskIDs : StartTask(1, t)
    \/ StartTaskRegister(1)
    \/ StartTaskPrepare(1)
    \/ StartTaskDescribe(1)
    \/ StartTaskSet(1)
    \/ \E s \in 1..MaxSessions : ChildExit(s)
    \/ \E w \in Waiters, t \in TaskIDs : WaitTask(w, t)
    \/ \E w \in Waiters : WaitExec(w)
    \/ \E w \in Waiters : WaitExecCancelled(w)
    \/ \E w \in Waiters : WaitTimeout(w)
    \/ \E w \in Waiters : WaitOOM(w)
    \/ \E w \in Waiters : WaitDeregister(w)
    \/ \E w \in Waiters : WaitServe(w)
    \/ \E w \in Waiters : WaitDone(w)
    \/ \E w \in Waiters : WaitCtxCancel(w)
    \/ \E m \in Machines : KernelOOM(m)
    \/ LoopRegister
    \/ LoopDeregister
    \/ LoopOOM
    \/ Shutdown

SpecWaiters == InitWaiters /\ [][NextWaiters]_vars

\* The wait loop offers its result on the channel WaitTask returned.
Serving(w) == waits[w].pc \in {"serve", "served"}

\* C40: two wait loops of one task whose contexts are not cancelled offer
\* results with the same exit code, signal and OOM flag; the result a wait
\* loop offers does not change from one receive to the next; and a channel
\* is closed only after its context or the driver's is cancelled.
C40_WaitersGetSameResult ==
    /\ [](\A w1, w2 \in Waiters :
            (/\ Serving(w1) /\ Serving(w2)
             /\ waits[w1].session = waits[w2].session
             /\ ~waitCtx[w1] /\ ~waitCtx[w2] /\ ~ctxDone)
            => /\ waits[w1].result.ExitCode = waits[w2].result.ExitCode
               /\ waits[w1].result.Signal = waits[w2].result.Signal
               /\ waits[w1].result.OOMKilled = waits[w2].result.OOMKilled)
    /\ [][\A w \in Waiters :
            (Serving(w) /\ Serving(w)') => waits'[w].result = waits[w].result]_vars
    /\ [](\A w \in Waiters :
            waits[w].pc = "closed" => (waitCtx[w] \/ ctxDone))

====
